---- MODULE Spec2Model ----
(***************************************************************************)
(* Model of the health-document bundle builders of rahulkkamble/           *)
(* health-document: the Health Document Record builder (src/src/App.js,    *)
(* variant "doc") and the Invoice Record builder (src/unnamed/part_000,    *)
(* variant "invoice").                                                     *)
(*                                                                         *)
(* Conventions                                                             *)
(*  - strings the code inspects character by character (title, dob) are    *)
(*    sequences of one-character strings; other strings are TLA+ strings;  *)
(*  - a missing / undefined field is Undefined (plain strings) or          *)
(*    UndefinedSeq (character sequences); "" and <<>> are the empty string;*)
(*  - identifiers are sequences of strings too: uuidv4() is a draw of a    *)
(*    fresh one, <<"uuid", ToString(n)>> with n the session's count of     *)
(*    draws; those that come from outside the program are <<"EXT", "1">>   *)
(*    and the like;                                                        *)
(*  - `urn:uuid:${id}` is Ref(id).                                         *)
(***************************************************************************)
EXTENDS Integers, Sequences, FiniteSets, TLC

(* ------------------------------ bounds --------------------------------- *)
\* most files one pick of the file input delivers
MaxFiles == 2
\* most actions of the user (edits of the form, picks and removals of files,
\* clicks on Submit / Generate) in one session
MaxActs == 3

(* --------------------------- JS value helpers --------------------------- *)
Undefined == "<undefined>"
UndefinedSeq == <<"<undefined>">>

\* JS truthiness of a string-or-undefined value: a plain string; a character
\* sequence or an identifier
TruthyStr(v) == v # Undefined /\ v # ""
Truthy(v) == v # UndefinedSeq /\ v # <<>>

IsSpace(c) == c = " "

RECURSIVE TrimStart(_)
TrimStart(s) == IF s # <<>> /\ IsSpace(Head(s)) THEN TrimStart(Tail(s)) ELSE s

RECURSIVE TrimEnd(_)
TrimEnd(s) == IF s # <<>> /\ IsSpace(s[Len(s)]) THEN TrimEnd(SubSeq(s, 1, Len(s) - 1)) ELSE s

\* String.prototype.trim
\* variant of Trim that removes nothing
Trim_none(s) == s

Trim(s) == TrimEnd(TrimStart(s))

\* `urn:uuid:${id}`
Ref(id) == <<"urn:uuid:">> \o id

\* uuidv4(): the n-th identifier drawn in this session
uuidv4(n) == <<"uuid", ToString(n)>>

\* String.prototype.toLowerCase, on the spellings the model uses
\* variant of LowerOf that leaves the text as it is
LowerOf_unchanged(c) == c

LowerOf(c) == CASE c = "EXT" -> "ext" [] c = "Female" -> "female" [] c = "MALE" -> "male" [] OTHER -> c
toLowerCase(s) == [i \in 1..Len(s) |-> LowerOf(s[i])]

(* ------------------------- date normalisation --------------------------- *)
Digits == {"0", "1", "2", "3", "4", "5", "6", "7", "8", "9"}

AllDigits(s) == \A i \in 1..Len(s) : s[i] \in Digits

\* /^\d{4}-\d{2}-\d{2}$/.test(s)
IsIsoDate(s) ==
    /\ Len(s) = 10
    /\ s[5] = "-" /\ s[8] = "-"
    /\ AllDigits(SubSeq(s, 1, 4)) /\ AllDigits(SubSeq(s, 6, 7)) /\ AllDigits(SubSeq(s, 9, 10))

\* String.prototype.includes for one character
Includes(s, c) == \E i \in 1..Len(s) : s[i] = c

\* String.prototype.split on a one-character separator
RECURSIVE Split(_, _)
Split(s, sep) ==
    IF ~Includes(s, sep) THEN <<s>>
    ELSE LET k == CHOOSE i \in 1..Len(s) : s[i] = sep /\ \A j \in 1..(i - 1) : s[j] # sep
         IN <<SubSeq(s, 1, k - 1)>> \o Split(SubSeq(s, k + 1, Len(s)), sep)

\* String.prototype.padStart(2, "0")
\* variant of padStart2 that does not pad
padStart2_none(s) == s

padStart2(s) == IF Len(s) = 0 THEN <<"0", "0">> ELSE IF Len(s) = 1 THEN <<"0">> \o s ELSE s

\* src/src/App.js ddmmyyyyToISO
ddmmyyyyToISO(v) ==
    IF ~Truthy(v) THEN UndefinedSeq
    ELSE LET s == Trim(v) IN
         IF IsIsoDate(s) THEN s
         ELSE LET sep == IF Includes(s, "-") THEN "-" ELSE IF Includes(s, "/") THEN "/" ELSE "none" IN
              IF sep = "none" THEN UndefinedSeq
              ELSE LET parts == Split(s, sep) IN
                   IF Len(parts) # 3 THEN UndefinedSeq
                   ELSE IF parts[1] = <<>> \/ parts[2] = <<>> \/ parts[3] = <<>> THEN UndefinedSeq
                   ELSE parts[3] \o <<"-">> \o padStart2(parts[2]) \o <<"-">> \o padStart2(parts[1])

IsSep(c) == c = "-" \/ c = "/"

\* input.match(/^(\d{1,2})[-\/](\d{1,2})[-\/](\d{2,4})$/): the three groups, or <<>>
MatchDMY(s) ==
    LET hits == { t \in (1..2) \X (1..2) \X (2..4) :
                    /\ Len(s) = t[1] + 1 + t[2] + 1 + t[3]
                    /\ AllDigits(SubSeq(s, 1, t[1]))
                    /\ IsSep(s[t[1] + 1])
                    /\ AllDigits(SubSeq(s, t[1] + 2, t[1] + 1 + t[2]))
                    /\ IsSep(s[t[1] + t[2] + 2])
                    /\ AllDigits(SubSeq(s, t[1] + t[2] + 3, Len(s))) }
    IN IF hits = {} THEN <<>>
       ELSE LET t == CHOOSE h \in hits : TRUE
            IN <<SubSeq(s, 1, t[1]), SubSeq(s, t[1] + 2, t[1] + 1 + t[2]), SubSeq(s, t[1] + t[2] + 3, Len(s))>>

\* What `new Date(input)` followed by toISOString().slice(0, 10) can give for a
\* string neither regular expression accepts: the engine's legacy date parser
\* and the local time zone decide, so it is any of: Invalid Date (undefined),
\* or a calendar date in canonical form.
DateFallback(input) ==
    {UndefinedSeq} \cup
    (IF \E i \in 1..Len(input) : input[i] \in Digits
       THEN {<<"1", "9", "9", "0", "-", "1", "2", "-", "2", "4">>,
             <<"1", "9", "9", "0", "-", "1", "2", "-", "2", "5">>}
       ELSE {})

\* src/unnamed/part_000 toFhirDate: the set of values the call can return
toFhirDate(input) ==
    IF ~Truthy(input) THEN {UndefinedSeq}
    ELSE IF IsIsoDate(input) THEN {input}
    ELSE LET m == MatchDMY(input) IN
         IF m # <<>>
           THEN LET dd == padStart2(m[1])
                    mm == padStart2(m[2])
                    yy == IF Len(m[3]) = 2 THEN <<"1", "9">> \o m[3] ELSE m[3]
                IN {yy \o <<"-">> \o mm \o <<"-">> \o dd}
           ELSE DateFallback(input)

(* ----------------------- ABHA address normalisation --------------------- *)
\* Collation classes of the characters the model uses, in the order
\* String.prototype.localeCompare ranks them (punctuation, digits, letters;
\* letters compare without case first).
Punctuation == <<"{", "}", "\"", ":", "@", ".", "-">>
Letters == <<"a", "b", "c", "x", "y">>
UpperOf(c) == CASE c = "a" -> "A" [] c = "b" -> "B" [] c = "c" -> "C" [] c = "x" -> "X" [] c = "y" -> "Y" [] OTHER -> c

IndexIn(seq, c) == IF \E i \in 1..Len(seq) : seq[i] = c THEN CHOOSE i \in 1..Len(seq) : seq[i] = c ELSE 0

\* primary collation weight of one character
PrimaryWeight(c) ==
    IF IndexIn(Punctuation, c) > 0 THEN IndexIn(Punctuation, c)
    ELSE IF c \in Digits THEN 20 + (CHOOSE d \in 0..9 : <<"0", "1", "2", "3", "4", "5", "6", "7", "8", "9">>[d + 1] = c)
    ELSE IF IndexIn(Letters, c) > 0 THEN 40 + IndexIn(Letters, c)
    ELSE IF \E i \in 1..Len(Letters) : UpperOf(Letters[i]) = c
           THEN 40 + (CHOOSE i \in 1..Len(Letters) : UpperOf(Letters[i]) = c)
    ELSE 0

\* tertiary (case) weight: lower case before upper case
CaseWeight(c) == IF IndexIn(Letters, c) = 0 /\ \E i \in 1..Len(Letters) : UpperOf(Letters[i]) = c THEN 1 ELSE 0

\* the weight of character c at a comparison level
Weight(level, c) == IF level = "primary" THEN PrimaryWeight(c) ELSE CaseWeight(c)

RECURSIVE CompareBy(_, _, _)
CompareBy(level, a, b) ==
    IF a = <<>> /\ b = <<>> THEN 0
    ELSE IF a = <<>> THEN -1
    ELSE IF b = <<>> THEN 1
    ELSE IF Weight(level, Head(a)) < Weight(level, Head(b)) THEN -1
    ELSE IF Weight(level, Head(a)) > Weight(level, Head(b)) THEN 1
    ELSE CompareBy(level, Tail(a), Tail(b))

\* a.localeCompare(b): negative, zero or positive
localeCompare(a, b) ==
    LET p == CompareBy("primary", a, b)
    IN IF p # 0 THEN p ELSE CompareBy("case", a, b)

\* JSON.stringify of an address object that has no address field
JSONstringify(item) == <<"{", "\"", "isPrimary", "\"", ":", IF item.isPrimary THEN "true" ELSE "false", "}">>

\* the .map callback of normalizeAbhaAddresses; [kind |-> "null"] is a dropped entry
NormalizeItem(item) ==
    IF item.kind = "null" \/ (item.kind = "string" /\ item.text = <<>>) THEN [kind |-> "null"]
    ELSE IF item.kind = "string" THEN [kind |-> "entry", value |-> item.text, label |-> item.text, primary |-> FALSE]
    ELSE IF item.kind = "object" THEN
         IF Truthy(item.address)
           THEN [kind |-> "entry", value |-> item.address,
                 label |-> IF item.isPrimary THEN item.address \o <<" (primary)">> ELSE item.address,
                 primary |-> item.isPrimary]
           ELSE [kind |-> "entry", value |-> JSONstringify(item), label |-> JSONstringify(item),
                 primary |-> item.isPrimary]
    ELSE [kind |-> "null"]

\* variant of AbhaCompare that compares the values only
AbhaCompare_valueOnly(a, b) == localeCompare(a.value, b.value)

\* (a, b) => (b.primary - a.primary) || a.value.localeCompare(b.value)
AbhaCompare(a, b) ==
    LET d == (IF b.primary THEN 1 ELSE 0) - (IF a.primary THEN 1 ELSE 0)
    IN IF d # 0 THEN d ELSE localeCompare(a.value, b.value)

\* Array.prototype.sort is stable: insertion after every element that does not
\* compare greater
RECURSIVE InsertSorted(_, _)
InsertSorted(sorted, e) ==
    IF sorted = <<>> THEN <<e>>
    ELSE IF AbhaCompare(Head(sorted), e) <= 0 THEN <<Head(sorted)>> \o InsertSorted(Tail(sorted), e)
    ELSE <<e>> \o sorted

RECURSIVE SortAbha(_)
SortAbha(list) == IF list = <<>> THEN <<>> ELSE InsertSorted(SortAbha(SubSeq(list, 1, Len(list) - 1)), list[Len(list)])

RECURSIVE MapFilterAbha(_)
MapFilterAbha(raw) ==
    IF raw = <<>> THEN <<>>
    ELSE LET n == NormalizeItem(Head(raw))
         IN (IF n.kind = "null" THEN <<>> ELSE <<[value |-> n.value, label |-> n.label, primary |-> n.primary]>>)
            \o MapFilterAbha(Tail(raw))

\* src/src/App.js normalizeAbhaAddresses; patientObj is a patient record or NoPatient
NoPatient == [absent |-> TRUE]
normalizeAbhaAddresses(patientObj) ==
    LET raw == IF patientObj = NoPatient THEN <<>>
               ELSE IF patientObj.nested_abha.isArray THEN patientObj.nested_abha.items
               ELSE IF patientObj.abha_addresses.isArray THEN patientObj.abha_addresses.items
               ELSE <<>>
    IN SortAbha(MapFilterAbha(raw))

(* ------------------------- external inputs ------------------------------ *)
NotArray == [isArray |-> FALSE, items |-> <<>>]
ArrayOf(items) == [isArray |-> TRUE, items |-> items]

AbhaString(text) == [kind |-> "string", text |-> text, address |-> UndefinedSeq, isPrimary |-> FALSE]
AbhaObject(address, isPrimary) == [kind |-> "object", text |-> <<>>, address |-> address, isPrimary |-> isPrimary]

\* the patient of the spec's end-to-end scenario
pAsha ==
    [name |-> "Asha", gender |-> "Female",
     dob |-> <<"0", "1", "-", "0", "2", "-", "1", "9", "9", "0">>,
     mobile |-> "9999999999", email |-> Undefined, address |-> Undefined,
     mrn |-> UndefinedSeq, user_ref_id |-> UndefinedSeq, abha_ref |-> UndefinedSeq, id |-> UndefinedSeq,
     nested_abha |-> NotArray, abha_addresses |-> NotArray]

\* a patient with every optional field present
pFull ==
    [name |-> "Ravi", gender |-> "MALE",
     dob |-> <<"1", "9", "8", "5", "-", "0", "7", "-", "3", "0">>,
     mobile |-> "8888888888", email |-> "ravi@mail", address |-> "12 Main Road",
     mrn |-> <<"MRN-1">>, user_ref_id |-> <<"EXT", "1">>, abha_ref |-> <<"r", "@", "x">>, id |-> <<"17">>,
     nested_abha |-> ArrayOf(<<AbhaString(<<"a", "@", "x">>), AbhaObject(<<"b", "@", "x">>, TRUE)>>),
     abha_addresses |-> NotArray]

\* a patient with every optional field missing
pBare ==
    [name |-> Undefined, gender |-> Undefined, dob |-> UndefinedSeq,
     mobile |-> Undefined, email |-> Undefined, address |-> Undefined,
     mrn |-> UndefinedSeq, user_ref_id |-> UndefinedSeq, abha_ref |-> UndefinedSeq, id |-> UndefinedSeq,
     nested_abha |-> NotArray, abha_addresses |-> NotArray]

\* the non-empty lists a patient source can answer with
PatientLists == {<<pAsha, pFull>>, <<pBare>>}

\* the outcome of a fetch: the request failed ("error"), the status was not OK
\* ("notOk"), the body is no JSON ("badJson"), or the parsed body ("json")
NoAnswer == [kind |-> "none", data |-> NotArray]
FailedAnswers == {[kind |-> k, data |-> NotArray] : k \in {"error", "notOk", "badJson"}}
JsonAnswers == {[kind |-> "json", data |-> d] : d \in {NotArray, ArrayOf(<<>>)} \cup {ArrayOf(l) : l \in PatientLists}}

\* App.js:261-263: the API answer as the try block takes it: a non-empty list
IsNonEmptyList(answer) == answer.kind = "json" /\ answer.data.isArray /\ Len(answer.data.items) > 0

\* window.GlobalPractioner || window.GlobalPractitionerFHIR: absent, or an object
\* whose name is a list of name entries (nameText), a plain string (nameString)
\* or neither, and whose license is identifier[0].value, .license or neither
NoGP == [present |-> FALSE, id |-> UndefinedSeq, nameText |-> Undefined, nameString |-> Undefined,
         identifierValue |-> Undefined, license |-> Undefined]
gpFhir == [present |-> TRUE, id |-> <<"ext", "9">>, nameText |-> "Dr. X", nameString |-> Undefined,
           identifierValue |-> "LIC-1", license |-> Undefined]
gpMalformed == [present |-> TRUE, id |-> UndefinedSeq, nameText |-> Undefined, nameString |-> Undefined,
                identifierValue |-> Undefined, license |-> Undefined]
GlobalPractitioners == {NoGP, gpFhir, gpMalformed}

\* src/src/App.js resolveGlobalPractitioner; n is the identifier the fallback draws
\* variant of resolveGlobalPractitioner with no default name or license
resolveGlobalPractitioner_noFallback(g, n) ==
    [id |-> IF g.present /\ Truthy(g.id) THEN g.id ELSE <<"TEMP-">> \o uuidv4(n),
     name |-> IF g.present /\ TruthyStr(g.nameText) THEN g.nameText ELSE Undefined,
     license |-> IF g.present /\ TruthyStr(g.identifierValue) THEN g.identifierValue ELSE Undefined]

resolveGlobalPractitioner(g, n) ==
    LET fallback == [id |-> <<"TEMP-">> \o uuidv4(n), name |-> "Dr. ABC", license |-> "LIC-0000"]
    IN IF ~g.present THEN fallback
       ELSE [id |-> IF Truthy(g.id) THEN g.id ELSE fallback.id,
             name |-> IF TruthyStr(g.nameText) THEN g.nameText
                      ELSE IF g.nameString # Undefined THEN g.nameString ELSE fallback.name,
             license |-> IF TruthyStr(g.identifierValue) THEN g.identifierValue
                         ELSE IF TruthyStr(g.license) THEN g.license ELSE fallback.license]

\* the files the user can pick: a scanned image, and a file the browser reports
\* no content type for
fileScan == [name |-> "scan.jpg", type |-> "image/jpeg", bytes |-> "bytes-scan"]
fileNotes == [name |-> "notes", type |-> "", bytes |-> "bytes-notes"]
fileReport == [name |-> "report.pdf", type |-> "application/pdf", bytes |-> "bytes-report"]
\* the folder the file dialog shows, in its order
Folder == <<fileScan, fileNotes, fileReport>>

RECURSIVE SubSeqsOf(_)
SubSeqsOf(list) ==
    IF list = <<>> THEN {<<>>}
    ELSE LET rest == SubSeqsOf(Tail(list)) IN rest \cup {<<Head(list)>> \o q : q \in rest}

\* the selections one use of the file input can deliver
FilePicks == {q \in SubSeqsOf(Folder) : Len(q) <= MaxFiles}

\* the base64 text of a file's bytes
Base64Of(bytes) ==
    CASE bytes = "bytes-scan" -> "Ynl0ZXMtc2Nhbg=="
      [] bytes = "bytes-notes" -> "Ynl0ZXMtbm90ZXM="
      [] bytes = "bytes-report" -> "Ynl0ZXMtcmVwb3J0"
      [] OTHER -> ""

\* FileReader.readAsDataURL: the data URL, as its parts
readAsDataURL(file) == <<"data:", file.type, ";", "base64,", Base64Of(file.bytes)>>

\* reader.onload of fileToBase64NoPrefix: what follows "base64,", or all of it
\* variant of fileToBase64NoPrefix that keeps the data-URL prefix
fileToBase64NoPrefix_whole(res) == res

fileToBase64NoPrefix(res) ==
    LET idx == IndexIn(res, "base64,")
    IN IF idx > 0 THEN SubSeq(res, idx + 1, Len(res)) ELSE res

PLACEHOLDER_PDF_B64 == <<"JVBERi0xLjQKJeLjz9MK">>

(* ------------------------------- state ---------------------------------- *)
VARIABLES
    variant,            \* which App is running: "doc" (src/src/App.js), "invoice" (part_000)
    gp,                 \* window.GlobalPractioner, an external input fixed for the session
    nextId,             \* number of identifiers uuidv4() drew so far
    patients, loadPc, selectedPatientIdx, abhaOptions, selectedAbha, abhaEffectPending,
    practitioner,
    status, title, encounterRefText, custodianName,
    attesterMode, attesterPartyType, attesterOrgName,
    files, fileNamesPreview,
    builds,             \* the invocations of onBuildBundle that are awaiting a file read or the POST
    lastAlert, alertCount, \* the message alert() showed last, and how many it showed
    posts,              \* number of axios.post requests sent
    rejections,         \* number of onBuildBundle promises that rejected (nothing handles them)
    acts,               \* number of actions the user took
    lineItems, totalNet, totalGross, generatedBundle,
    dateIn, dateOut,    \* the date normaliser on its own: an input, and what was computed
    abhaIn, abhaOut,    \* the ABHA address normaliser on its own: a patient, and what was computed
    apiAnswer,          \* what the remote patient endpoint answers the request in flight, NoAnswer when none is
    staticAnswer        \* what /patients.json answers the request in flight, NoAnswer when none is

envVars == <<variant, gp>>
patientVars == <<patients, loadPc, selectedPatientIdx, abhaOptions, selectedAbha, abhaEffectPending>>
formVars == <<status, title, encounterRefText, custodianName, attesterMode, attesterPartyType, attesterOrgName>>
fileVars == <<files, fileNamesPreview>>
buildVars == <<builds, lastAlert, alertCount, posts, rejections>>
invoiceVars == <<lineItems, totalNet, totalGross, generatedBundle>>
dateVars == <<dateIn, dateOut>>
abhaVars == <<abhaIn, abhaOut>>
loadVars == <<apiAnswer, staticAnswer>>
vars == <<envVars, nextId, patientVars, practitioner, formVars, fileVars, buildVars, acts, invoiceVars, dateVars, abhaVars, loadVars>>

\* the values the model's user types or selects
StatusOptions == {"preliminary", "final"}
Titles == {<<"R", "x">>, <<>>, <<" ", " ">>}
EncounterTexts == {"", "ENC-7"}
OrgNames == {"", "City Clinic"}
AttesterModes == {"professional", "official"}
PartyTypes == {"Practitioner", "Organization"}

\* useMemo: selectedPatientIdx >= 0 ? patients[selectedPatientIdx] : null
\* (an index past the end of the list gives undefined, which is as falsy)
selectedPatient ==
    IF selectedPatientIdx >= 0 /\ selectedPatientIdx < Len(patients)
      THEN patients[selectedPatientIdx + 1] ELSE NoPatient

NoBundle == [resourceType |-> "none", entry |-> <<>>]

\* The state after the first render and its mount effects (the effect of
\* App.js:231 has stored resolveGlobalPractitioner()'s second answer).
InitDoc ==
    /\ variant = "doc"
    /\ gp \in GlobalPractitioners
    /\ nextId = 2
    /\ practitioner = resolveGlobalPractitioner(gp, 1)
    /\ patients = <<>> /\ loadPc = "api" /\ selectedPatientIdx = -1
    /\ abhaOptions = <<>> /\ selectedAbha = <<>> /\ abhaEffectPending = FALSE
    /\ status = "final" /\ title = <<"R", "x">>
    /\ encounterRefText = "" /\ custodianName = ""
    /\ attesterMode = "professional" /\ attesterPartyType = "Practitioner" /\ attesterOrgName = ""
    /\ files = <<>> /\ fileNamesPreview = <<>>
    /\ builds = {} /\ lastAlert = "" /\ alertCount = 0 /\ posts = 0 /\ rejections = 0 /\ acts = 0
    /\ lineItems = <<>> /\ totalNet = <<>> /\ totalGross = <<>> /\ generatedBundle = NoBundle
    /\ dateIn = UndefinedSeq /\ dateOut = [fn |-> "none", out |-> UndefinedSeq]
    /\ abhaIn = NoPatient /\ abhaOut = [fn |-> "none", out |-> <<>>]
    /\ apiAnswer \in FailedAnswers \cup JsonAnswers /\ staticAnswer = NoAnswer

(* ----------------- doc variant: patients and ABHA addresses -------------- *)
FirstAbha(norm) == IF Len(norm) > 0 THEN norm[1].value ELSE <<>>

\* variant of ApiLoaded that goes on to request the static document
ApiLoaded_alsoRequestsStatic ==
    /\ variant = "doc" /\ loadPc = "api"
    /\ IsNonEmptyList(apiAnswer)
    /\ LET apiData == apiAnswer.data.items
       IN /\ patients' = apiData
          /\ selectedPatientIdx' = 0
          /\ abhaOptions' = normalizeAbhaAddresses(apiData[1])
          /\ selectedAbha' = FirstAbha(normalizeAbhaAddresses(apiData[1]))
    /\ abhaEffectPending' = TRUE
    /\ loadPc' = "static"
    /\ apiAnswer' = NoAnswer /\ staticAnswer' \in JsonAnswers
    /\ UNCHANGED <<envVars, nextId, practitioner, formVars, fileVars, buildVars, acts, invoiceVars, dateVars, abhaVars>>

\* App.js:255-271: the remote endpoint answered OK with a non-empty list
ApiLoaded ==
    /\ variant = "doc" /\ loadPc = "api"
    /\ IsNonEmptyList(apiAnswer)
    /\ LET apiData == apiAnswer.data.items
       IN /\ patients' = apiData
          /\ selectedPatientIdx' = 0
          /\ abhaOptions' = normalizeAbhaAddresses(apiData[1])
          /\ selectedAbha' = FirstAbha(normalizeAbhaAddresses(apiData[1]))
    /\ abhaEffectPending' = TRUE
    /\ loadPc' = "done"
    /\ apiAnswer' = NoAnswer /\ staticAnswer' = staticAnswer
    /\ UNCHANGED <<envVars, nextId, practitioner, formVars, fileVars, buildVars, acts, invoiceVars, dateVars, abhaVars>>

\* App.js:255-263, 272-276: the request failed, the status was not OK, the body
\* was no JSON, or the answer was empty or no list; the catch block requests
\* the static document
ApiFailed ==
    /\ variant = "doc" /\ loadPc = "api"
    /\ ~IsNonEmptyList(apiAnswer)
    /\ loadPc' = "static"
    /\ apiAnswer' = NoAnswer
    /\ staticAnswer' \in {[kind |-> k, data |-> NotArray] : k \in {"error", "badJson"}} \cup JsonAnswers
    /\ UNCHANGED <<envVars, nextId, patients, selectedPatientIdx, abhaOptions, selectedAbha, abhaEffectPending,
                   practitioner, formVars, fileVars, buildVars, acts, invoiceVars, dateVars, abhaVars>>

\* App.js:276-285: the static document answered; a non-list counts as the empty list
StaticLoaded ==
    /\ variant = "doc" /\ loadPc = "static"
    /\ staticAnswer.kind = "json"
    /\ LET arr == IF staticAnswer.data.isArray THEN staticAnswer.data.items ELSE <<>>
       IN /\ patients' = arr
          /\ IF Len(arr) > 0
               THEN /\ selectedPatientIdx' = 0
                    /\ abhaOptions' = normalizeAbhaAddresses(arr[1])
                    /\ selectedAbha' = FirstAbha(normalizeAbhaAddresses(arr[1]))
                    /\ abhaEffectPending' = TRUE
               ELSE UNCHANGED <<selectedPatientIdx, abhaOptions, selectedAbha, abhaEffectPending>>
    /\ loadPc' = "done"
    /\ staticAnswer' = NoAnswer /\ apiAnswer' = apiAnswer
    /\ UNCHANGED <<envVars, nextId, practitioner, formVars, fileVars, buildVars, acts, invoiceVars, dateVars, abhaVars>>

\* App.js:286-288: the static document could not be fetched or parsed
StaticFailed ==
    /\ variant = "doc" /\ loadPc = "static"
    /\ staticAnswer.kind # "json"
    /\ loadPc' = "done"
    /\ staticAnswer' = NoAnswer /\ apiAnswer' = apiAnswer
    /\ UNCHANGED <<envVars, nextId, patients, selectedPatientIdx, abhaOptions, selectedAbha, abhaEffectPending,
                   practitioner, formVars, fileVars, buildVars, acts, invoiceVars, dateVars, abhaVars>>

\* variant of AbhaEffect that renews the options and keeps the chosen address
AbhaEffect_keepsChoice ==
    /\ variant = "doc" /\ abhaEffectPending
    /\ abhaOptions' = normalizeAbhaAddresses(selectedPatient)
    /\ selectedAbha' = selectedAbha
    /\ abhaEffectPending' = FALSE
    /\ UNCHANGED <<envVars, nextId, patients, loadPc, selectedPatientIdx,
                   practitioner, formVars, fileVars, buildVars, acts, invoiceVars, dateVars, abhaVars, loadVars>>

\* App.js:239-248: the effect that follows a render in which selectedPatient changed
AbhaEffect ==
    /\ variant = "doc" /\ abhaEffectPending
    /\ abhaOptions' = normalizeAbhaAddresses(selectedPatient)
    /\ selectedAbha' = FirstAbha(normalizeAbhaAddresses(selectedPatient))
    /\ abhaEffectPending' = FALSE
    /\ UNCHANGED <<envVars, nextId, patients, loadPc, selectedPatientIdx,
                   practitioner, formVars, fileVars, buildVars, acts, invoiceVars, dateVars, abhaVars, loadVars>>

\* React runs a render's effects before it handles the next user event
UserCanAct == variant = "doc" /\ ~abhaEffectPending
CanAct == UserCanAct /\ acts < MaxActs

\* window.alert(msg)
Alert(msg) == lastAlert' = msg /\ alertCount' = alertCount + 1

\* App.js:614: the patient select
SelectPatient ==
    /\ CanAct
    /\ \E i \in 0..(Len(patients) - 1) :
         /\ i # selectedPatientIdx
         /\ selectedPatientIdx' = i
    /\ abhaEffectPending' = TRUE
    /\ acts' = acts + 1
    /\ UNCHANGED <<envVars, nextId, patients, loadPc, abhaOptions, selectedAbha,
                   practitioner, formVars, fileVars, buildVars, invoiceVars, dateVars, abhaVars, loadVars>>

\* App.js:623: the ABHA address select
SelectAbha ==
    /\ CanAct
    /\ \E k \in 1..Len(abhaOptions) :
         /\ abhaOptions[k].value # selectedAbha
         /\ selectedAbha' = abhaOptions[k].value
    /\ acts' = acts + 1
    /\ UNCHANGED <<envVars, nextId, patients, loadPc, selectedPatientIdx, abhaOptions, abhaEffectPending,
                   practitioner, formVars, fileVars, buildVars, invoiceVars, dateVars, abhaVars, loadVars>>

(* ----------------------- doc variant: the form --------------------------- *)
\* App.js:684
SetStatus ==
    /\ CanAct
    /\ \E v \in StatusOptions \ {status} : status' = v
    /\ acts' = acts + 1
    /\ UNCHANGED <<envVars, nextId, patientVars, practitioner, title, encounterRefText, custodianName,
                   attesterMode, attesterPartyType, attesterOrgName, fileVars, buildVars, invoiceVars, dateVars, abhaVars, loadVars>>

\* App.js:694
SetTitle ==
    /\ CanAct
    /\ \E v \in Titles \ {title} : title' = v
    /\ acts' = acts + 1
    /\ UNCHANGED <<envVars, nextId, patientVars, practitioner, status, encounterRefText, custodianName,
                   attesterMode, attesterPartyType, attesterOrgName, fileVars, buildVars, invoiceVars, dateVars, abhaVars, loadVars>>

\* App.js:704
SetEncounterRefText ==
    /\ CanAct
    /\ \E v \in EncounterTexts \ {encounterRefText} : encounterRefText' = v
    /\ acts' = acts + 1
    /\ UNCHANGED <<envVars, nextId, patientVars, practitioner, status, title, custodianName,
                   attesterMode, attesterPartyType, attesterOrgName, fileVars, buildVars, invoiceVars, dateVars, abhaVars, loadVars>>

\* App.js:709
SetCustodianName ==
    /\ CanAct
    /\ \E v \in OrgNames \ {custodianName} : custodianName' = v
    /\ acts' = acts + 1
    /\ UNCHANGED <<envVars, nextId, patientVars, practitioner, status, title, encounterRefText,
                   attesterMode, attesterPartyType, attesterOrgName, fileVars, buildVars, invoiceVars, dateVars, abhaVars, loadVars>>

\* App.js:722
SetAttesterMode ==
    /\ CanAct
    /\ \E v \in AttesterModes \ {attesterMode} : attesterMode' = v
    /\ acts' = acts + 1
    /\ UNCHANGED <<envVars, nextId, patientVars, practitioner, status, title, encounterRefText, custodianName,
                   attesterPartyType, attesterOrgName, fileVars, buildVars, invoiceVars, dateVars, abhaVars, loadVars>>

\* App.js:732
SetAttesterPartyType ==
    /\ CanAct
    /\ \E v \in PartyTypes \ {attesterPartyType} : attesterPartyType' = v
    /\ acts' = acts + 1
    /\ UNCHANGED <<envVars, nextId, patientVars, practitioner, status, title, encounterRefText, custodianName,
                   attesterMode, attesterOrgName, fileVars, buildVars, invoiceVars, dateVars, abhaVars, loadVars>>

\* App.js:738-741: the input is rendered only for party type Organization
SetAttesterOrgName ==
    /\ CanAct /\ attesterPartyType = "Organization"
    /\ \E v \in OrgNames \ {attesterOrgName} : attesterOrgName' = v
    /\ acts' = acts + 1
    /\ UNCHANGED <<envVars, nextId, patientVars, practitioner, status, title, encounterRefText, custodianName,
                   attesterMode, attesterPartyType, fileVars, buildVars, invoiceVars, dateVars, abhaVars, loadVars>>

RECURSIVE MapName(_)
MapName(list) == IF list = <<>> THEN <<>> ELSE <<Head(list).name>> \o MapName(Tail(list))

\* App.js:294-298 onFilesPicked
onFilesPicked ==
    /\ CanAct
    /\ \E list \in FilePicks \ {files} :
         /\ files' = list
         /\ fileNamesPreview' = MapName(list)
    /\ acts' = acts + 1
    /\ UNCHANGED <<envVars, nextId, patientVars, practitioner, formVars, buildVars, invoiceVars, dateVars, abhaVars, loadVars>>

\* prev.filter((_, idx) => idx !== i), with idx counted from 0
RECURSIVE FilterOutIndex(_, _)
FilterOutIndex(prev, i) ==
    IF prev = <<>> THEN <<>>
    ELSE (IF i = 0 THEN <<>> ELSE <<Head(prev)>>) \o FilterOutIndex(Tail(prev), i - 1)

\* variant of removeFileAtIndex that leaves the preview names as they are
removeFileAtIndex_filesOnly ==
    /\ CanAct
    /\ \E i \in 0..(Len(fileNamesPreview) - 1) :
         /\ files' = FilterOutIndex(files, i)
         /\ fileNamesPreview' = fileNamesPreview
    /\ acts' = acts + 1
    /\ UNCHANGED <<envVars, nextId, patientVars, practitioner, formVars, buildVars, invoiceVars, dateVars, abhaVars, loadVars>>

\* App.js:301-307 removeFileAtIndex, from the Remove button of preview row i
removeFileAtIndex ==
    /\ CanAct
    /\ \E i \in 0..(Len(fileNamesPreview) - 1) :
         /\ files' = FilterOutIndex(files, i)
         /\ fileNamesPreview' = FilterOutIndex(fileNamesPreview, i)
    /\ acts' = acts + 1
    /\ UNCHANGED <<envVars, nextId, patientVars, practitioner, formVars, buildVars, invoiceVars, dateVars, abhaVars, loadVars>>

(* -------------------- doc variant: the record builders ------------------- *)
NoRes == [resourceType |-> "none"]
NoRef == <<"none">>
NullFile == [isNull |-> TRUE]

\* p?.mrn || p?.user_ref_id || p?.abha_ref || p?.id
FirstTruthy(ids) ==
    IF \E k \in 1..Len(ids) : Truthy(ids[k])
      THEN ids[CHOOSE k \in 1..Len(ids) : Truthy(ids[k]) /\ \A j \in 1..(k - 1) : ~Truthy(ids[j])]
      ELSE UndefinedSeq

\* App.js:340-365 buildPatientResource
buildPatientResource(p, patientId, selAbha) ==
    LET mrn == FirstTruthy(<<p.mrn, p.user_ref_id, p.abha_ref, p.id>>)
        identifiers ==
            (IF Truthy(mrn) THEN <<[system |-> "https://healthid.ndhm.gov.in", value |-> mrn]>> ELSE <<>>)
            \o (IF Truthy(p.abha_ref) THEN <<[system |-> "https://abdm.gov.in/abha", value |-> p.abha_ref]>> ELSE <<>>)
        telecom ==
            (IF TruthyStr(p.mobile) THEN <<[system |-> "phone", value |-> <<p.mobile>>]>> ELSE <<>>)
            \o (IF TruthyStr(p.email) THEN <<[system |-> "email", value |-> <<p.email>>]>> ELSE <<>>)
            \o (IF Truthy(selAbha) THEN <<[system |-> "url", value |-> <<"abha://">> \o selAbha]>> ELSE <<>>)
    IN [resourceType |-> "Patient",
        id |-> patientId,
        identifier |-> identifiers,
        name |-> IF TruthyStr(p.name) THEN <<[text |-> p.name]>> ELSE <<>>,
        gender |-> IF TruthyStr(p.gender) THEN LowerOf(p.gender) ELSE Undefined,
        birthDate |-> ddmmyyyyToISO(p.dob),
        telecom |-> telecom,
        address |-> IF TruthyStr(p.address) THEN <<[text |-> p.address]>> ELSE <<>>]

\* App.js:367-388 practitionerRes; n is the identifier drawn when practitioner.id is missing
BuildPractitionerRes(pract, n) ==
    [resourceType |-> "Practitioner",
     id |-> IF Truthy(pract.id) THEN pract.id ELSE uuidv4(n),
     license |-> IF TruthyStr(pract.license) THEN pract.license ELSE "LIC-0000",
     name |-> <<[text |-> IF TruthyStr(pract.name) THEN pract.name ELSE "Dr. ABC"]>>]

\* App.js:391-406 buildOrganizationResource
buildOrganizationResource(orgId, orgName) ==
    IF ~TruthyStr(orgName) THEN NoRes
    ELSE [resourceType |-> "Organization", id |-> orgId, facility |-> "HIP123456", name |-> orgName]

\* App.js:539-551 encounterRes; period start and end are two reads of the clock,
\* `later` seconds apart
BuildEncounterRes(encounterId, patientId, later) ==
    IF ~Truthy(encounterId) THEN NoRes
    ELSE [resourceType |-> "Encounter", id |-> encounterId, status |-> "finished",
          subject |-> Ref(patientId), period |-> [start |-> 0, end |-> later]]

\* App.js:434-467: one turn of the loop of buildDocAndBinaryResources, for file f
\* (NullFile for the placeholder) whose read gave `result`
\* variant of BinaryOf whose placeholder Binary has no content
BinaryOf_emptyPlaceholder(f, binId, result) ==
    [resourceType |-> "Binary", id |-> binId,
     contentType |-> IF f = NullFile THEN "application/pdf"
                     ELSE IF TruthyStr(f.type) THEN f.type ELSE "application/pdf",
     data |-> IF f = NullFile THEN <<>> ELSE fileToBase64NoPrefix(result)]

BinaryOf(f, binId, result) ==
    [resourceType |-> "Binary", id |-> binId,
     contentType |-> IF f = NullFile THEN "application/pdf"
                     ELSE IF TruthyStr(f.type) THEN f.type ELSE "application/pdf",
     data |-> IF f = NullFile THEN PLACEHOLDER_PDF_B64 ELSE fileToBase64NoPrefix(result)]

DocRefOf(f, docId, binId, patientId) ==
    [resourceType |-> "DocumentReference", id |-> docId, status |-> "current",
     subject |-> Ref(patientId),
     attachment |-> [contentType |-> IF f = NullFile THEN "application/pdf"
                                     ELSE IF TruthyStr(f.type) THEN f.type ELSE "application/pdf",
                     title |-> IF f = NullFile THEN "placeholder.pdf"
                               ELSE IF TruthyStr(f.name) THEN f.name ELSE "placeholder.pdf",
                     url |-> Ref(binId)]]

\* variant of MapSectionEntries that lists the first document only
MapSectionEntries_firstOnly(docRefs) ==
    IF docRefs = <<>> THEN <<>>
    ELSE <<[reference |-> Ref(Head(docRefs).id), type |-> "DocumentReference"]>>

RECURSIVE MapSectionEntries(_)
MapSectionEntries(docRefs) ==
    IF docRefs = <<>> THEN <<>>
    ELSE <<[reference |-> Ref(Head(docRefs).id), type |-> "DocumentReference"]>> \o MapSectionEntries(Tail(docRefs))

\* variant of buildCompositionResource that keeps both attester keys of the
\* object literal: the fixed official entry followed by the chosen party
buildCompositionResource_bothAttesters(b, docRefs) ==
    [resourceType |-> "Composition",
     id |-> b.compId,
     status |-> b.status,
     subject |-> Ref(b.patientId),
     encounter |-> b.encounterReference,
     author |-> <<[reference |-> Ref(b.practitionerRes.id), display |-> b.authorDisplay]>>,
     title |-> b.title,
     attester |-> <<[mode |-> "official", party |-> Ref(b.practitionerRes.id)]>>
                  \o (IF b.attesterPartyType = "Practitioner"
                        THEN <<[mode |-> b.attesterMode, party |-> Ref(b.practitionerRes.id)]>>
                      ELSE IF b.attesterPartyType = "Organization" /\ Truthy(b.attesterOrgId)
                        THEN <<[mode |-> b.attesterMode, party |-> Ref(b.attesterOrgId)]>>
                      ELSE <<>>),
     custodian |-> IF Truthy(b.custodianOrgId) THEN Ref(b.custodianOrgId) ELSE NoRef,
     section |-> <<[title |-> "Health documents", entry |-> MapSectionEntries(docRefs)]>>]

\* App.js:474-513 buildCompositionResource, for the invocation b; of the two
\* attester keys of the object literal the later one is the property's value
buildCompositionResource(b, docRefs) ==
    LET attesterArr ==
            IF b.attesterPartyType = "Practitioner"
              THEN <<[mode |-> b.attesterMode, party |-> Ref(b.practitionerRes.id)]>>
            ELSE IF b.attesterPartyType = "Organization" /\ Truthy(b.attesterOrgId)
              THEN <<[mode |-> b.attesterMode, party |-> Ref(b.attesterOrgId)]>>
            ELSE <<>>
    IN [resourceType |-> "Composition",
        id |-> b.compId,
        status |-> b.status,
        subject |-> Ref(b.patientId),
        encounter |-> b.encounterReference,
        author |-> <<[reference |-> Ref(b.practitionerRes.id), display |-> b.authorDisplay]>>,
        title |-> b.title,
        attester |-> IF Len(attesterArr) > 0 THEN attesterArr
                     ELSE <<[mode |-> "official", party |-> Ref(b.practitionerRes.id)]>>,
        custodian |-> IF Truthy(b.custodianOrgId) THEN Ref(b.custodianOrgId) ELSE NoRef,
        section |-> <<[title |-> "Health documents", entry |-> MapSectionEntries(docRefs)]>>]

Entry(res) == [fullUrl |-> Ref(res.id), resource |-> res]

RECURSIVE MapEntry(_)
MapEntry(list) == IF list = <<>> THEN <<>> ELSE <<Entry(Head(list))>> \o MapEntry(Tail(list))

\* variant of BuildBundle that leaves the Binary entries out
BuildBundle_noBinaries(b, compositionRes, binaries, docRefs, n) ==
    [resourceType |-> "Bundle",
     id |-> <<"HealthDocumentBundle-", uuidv4(n)>>,
     identifier |-> Ref(uuidv4(n + 1)),
     type |-> "document",
     entry |-> <<Entry(compositionRes), Entry(b.patientRes), Entry(b.practitionerRes)>>
               \o (IF b.encounterRes # NoRes THEN <<Entry(b.encounterRes)>> ELSE <<>>)
               \o (IF b.custodianRes # NoRes THEN <<Entry(b.custodianRes)>> ELSE <<>>)
               \o (IF b.attesterOrgRes # NoRes THEN <<Entry(b.attesterOrgRes)>> ELSE <<>>)
               \o MapEntry(docRefs)]

\* variant of BuildBundle that puts the Binary entries before the DocumentReferences
BuildBundle_binariesFirst(b, compositionRes, binaries, docRefs, n) ==
    [resourceType |-> "Bundle",
     id |-> <<"HealthDocumentBundle-", uuidv4(n)>>,
     identifier |-> Ref(uuidv4(n + 1)),
     type |-> "document",
     entry |-> <<Entry(compositionRes), Entry(b.patientRes), Entry(b.practitionerRes)>>
               \o (IF b.encounterRes # NoRes THEN <<Entry(b.encounterRes)>> ELSE <<>>)
               \o (IF b.custodianRes # NoRes THEN <<Entry(b.custodianRes)>> ELSE <<>>)
               \o (IF b.attesterOrgRes # NoRes THEN <<Entry(b.attesterOrgRes)>> ELSE <<>>)
               \o MapEntry(binaries)
               \o MapEntry(docRefs)]

\* App.js:559-583: the Bundle; n and n + 1 are the identifiers drawn for its id
\* and its identifier
BuildBundle(b, compositionRes, binaries, docRefs, n) ==
    [resourceType |-> "Bundle",
     id |-> <<"HealthDocumentBundle-", uuidv4(n)>>,
     identifier |-> Ref(uuidv4(n + 1)),
     type |-> "document",
     entry |-> <<Entry(compositionRes), Entry(b.patientRes), Entry(b.practitionerRes)>>
               \o (IF b.encounterRes # NoRes THEN <<Entry(b.encounterRes)>> ELSE <<>>)
               \o (IF b.custodianRes # NoRes THEN <<Entry(b.custodianRes)>> ELSE <<>>)
               \o (IF b.attesterOrgRes # NoRes THEN <<Entry(b.attesterOrgRes)>> ELSE <<>>)
               \o MapEntry(docRefs)
               \o MapEntry(binaries)]

(* -------------------- doc variant: onBuildBundle ------------------------- *)
B2N(x) == IF x THEN 1 ELSE 0

\* seconds the clock can advance between two consecutive reads of it
ClockAdvance == {0, 1}

\* variant of DrawIds that hands out one identifier count times
DrawIds_reused(count, from) == [i \in 1..count |-> uuidv4(from)]

\* docsToProcess.map(() => uuidv4()), the first of them being uuidv4(from)
RECURSIVE DrawIds(_, _)
DrawIds(count, from) == IF count = 0 THEN <<>> ELSE <<uuidv4(from)>> \o DrawIds(count - 1, from + 1)

\* App.js:335: files.length > 0 ? files : [null]
\* variant of DocsToProcess that always appends the placeholder
DocsToProcess_extraPlaceholder(fs) == fs \o <<NullFile>>

DocsToProcess(fs) == IF Len(fs) > 0 THEN fs ELSE <<NullFile>>

\* App.js:324-553: everything onBuildBundle computes between its checks and the
\* call of buildDocAndBinaryResources; the closure the rest of the invocation
\* works with. n is the count of identifiers drawn before, `later` the clock's
\* advance between the two reads of App.js:549.
StartedBuild(n, later) ==
    LET hasEnc == TruthyStr(encounterRefText)
        hasCust == TruthyStr(custodianName)
        hasAtt == attesterPartyType = "Organization" /\ TruthyStr(attesterOrgName)
        compId == uuidv4(n)
        patientId == uuidv4(n + 1)
        encounterId == IF hasEnc THEN uuidv4(n + 2) ELSE UndefinedSeq
        n3 == n + 2 + B2N(hasEnc)
        custodianOrgId == IF hasCust THEN uuidv4(n3) ELSE UndefinedSeq
        n4 == n3 + B2N(hasCust)
        attesterOrgId == IF hasAtt THEN uuidv4(n4) ELSE UndefinedSeq
        n5 == n4 + B2N(hasAtt)
        docsToProcess == DocsToProcess(files)
        count == Len(docsToProcess)
        binaryIds == DrawIds(count, n5)
        docRefIds == DrawIds(count, n5 + count)
        n6 == n5 + 2 * count
    IN [pc |-> "reading",
        files |-> files,
        compId |-> compId, patientId |-> patientId, encounterId |-> encounterId,
        custodianOrgId |-> custodianOrgId, attesterOrgId |-> attesterOrgId,
        docsToProcess |-> docsToProcess, binaryIds |-> binaryIds, docRefIds |-> docRefIds,
        status |-> status, title |-> title,
        attesterMode |-> attesterMode, attesterPartyType |-> attesterPartyType,
        authorDisplay |-> practitioner.name,
        patientRes |-> buildPatientResource(selectedPatient, patientId, selectedAbha),
        practitionerRes |-> BuildPractitionerRes(practitioner, n6),
        encounterReference |-> IF hasEnc THEN Ref(encounterId) ELSE NoRef,
        encounterRes |-> BuildEncounterRes(encounterId, patientId, later),
        custodianRes |-> IF hasCust THEN buildOrganizationResource(custodianOrgId, custodianName) ELSE NoRes,
        attesterOrgRes |-> IF hasAtt THEN buildOrganizationResource(attesterOrgId, attesterOrgName) ELSE NoRes,
        i |-> 1, binaries |-> <<>>, docRefs |-> <<>>,
        bundle |-> NoBundle,
        drawn |-> n6 + B2N(~Truthy(practitioner.id)) - n]

\* App.js:444-467 for the file at b.i, whose read gave `result`
AfterDoc(b, result) ==
    LET f == b.docsToProcess[b.i]
    IN [b EXCEPT !.binaries = Append(@, BinaryOf(f, b.binaryIds[b.i], result)),
                 !.docRefs = Append(@, DocRefOf(f, b.docRefIds[b.i], b.binaryIds[b.i], b.patientId)),
                 !.i = @ + 1]

\* variant of Sealed whose Composition takes status and title from the form as
\* it is when the last read completes
Sealed_readsFormAgain(b, n) ==
    [b EXCEPT !.pc = "posting",
              !.bundle = BuildBundle(b, buildCompositionResource([b EXCEPT !.status = status, !.title = title], b.docRefs),
                                     b.binaries, b.docRefs, n)]

\* App.js:556-587: all documents are in; the Composition and the Bundle are
\* built and the POST is sent. n counts the identifiers drawn before.
Sealed(b, n) ==
    [b EXCEPT !.pc = "posting",
              !.bundle = BuildBundle(b, buildCompositionResource(b, b.docRefs), b.binaries, b.docRefs, n)]

\* App.js:430-468: the loop of buildDocAndBinaryResources from turn b.i up to
\* its next await (a file to read) or its end; a placeholder turn awaits nothing
RECURSIVE RunLoop(_)
RunLoop(b) ==
    IF b.i <= Len(b.docsToProcess) /\ b.docsToProcess[b.i] = NullFile
      THEN RunLoop(AfterDoc(b, <<>>))
      ELSE b

\* variant of onBuildBundle that refuses a patient without a name
onBuildBundle_requiresName ==
    /\ CanAct
    /\ acts' = acts + 1
    /\ IF selectedPatient = NoPatient \/ selectedPatient.name = Undefined
         THEN /\ Alert("Please select a patient (required).")
              /\ UNCHANGED <<nextId, builds, posts>>
       ELSE \E later \in ClockAdvance :
              LET started == StartedBuild(nextId, later)
                  b == RunLoop(started)
              IN IF b.i <= Len(b.docsToProcess)
                   THEN /\ builds' = builds \cup {b}
                        /\ nextId' = nextId + b.drawn
                        /\ UNCHANGED <<lastAlert, alertCount, posts>>
                   ELSE /\ builds' = builds \cup {Sealed(b, nextId + b.drawn)}
                        /\ nextId' = nextId + b.drawn + 2
                        /\ posts' = posts + 1
                        /\ UNCHANGED <<lastAlert, alertCount>>
    /\ UNCHANGED <<envVars, patientVars, practitioner, formVars, fileVars, rejections, invoiceVars, dateVars, abhaVars, loadVars>>

\* App.js:310-322 and on: a click on Submit. The checks come first; an
\* invocation that has no file to read runs on to the POST within the click.
onBuildBundle ==
    /\ CanAct
    /\ acts' = acts + 1
    /\ IF selectedPatient = NoPatient
         THEN /\ Alert("Please select a patient (required).")
              /\ UNCHANGED <<nextId, builds, posts>>
       ELSE IF ~Truthy(title) \/ ~Truthy(Trim(title))
         THEN /\ Alert("Title is required.")
              /\ UNCHANGED <<nextId, builds, posts>>
       ELSE IF ~TruthyStr(status)
         THEN /\ Alert("Status is required.")
              /\ UNCHANGED <<nextId, builds, posts>>
       ELSE \E later \in ClockAdvance :
              LET started == StartedBuild(nextId, later)
                  b == RunLoop(started)
              IN IF b.i <= Len(b.docsToProcess)
                   THEN /\ builds' = builds \cup {b}
                        /\ nextId' = nextId + b.drawn
                        /\ UNCHANGED <<lastAlert, alertCount, posts>>
                   ELSE /\ builds' = builds \cup {Sealed(b, nextId + b.drawn)}
                        /\ nextId' = nextId + b.drawn + 2
                        /\ posts' = posts + 1
                        /\ UNCHANGED <<lastAlert, alertCount>>
    /\ UNCHANGED <<envVars, patientVars, practitioner, formVars, fileVars, rejections, invoiceVars, dateVars, abhaVars, loadVars>>

\* variant of ReadLoaded that builds the Composition and sends the bundle after
\* the first read that completes
ReadLoaded_sealsEarly ==
    /\ variant = "doc"
    /\ \E b \in builds :
         /\ b.pc = "reading"
         /\ builds' = (builds \ {b}) \cup {Sealed(AfterDoc(b, readAsDataURL(b.docsToProcess[b.i])), nextId)}
         /\ nextId' = nextId + 2
         /\ posts' = posts + 1
    /\ UNCHANGED <<envVars, patientVars, practitioner, formVars, fileVars, lastAlert, alertCount, rejections, acts,
                   invoiceVars, dateVars, abhaVars, loadVars>>

\* fileToBase64NoPrefix's reader.onload for the file an invocation awaits, and
\* the invocation's run up to its next await
ReadLoaded ==
    /\ variant = "doc"
    /\ \E b \in builds :
         /\ b.pc = "reading"
         /\ LET done == RunLoop(AfterDoc(b, readAsDataURL(b.docsToProcess[b.i]))) IN
            IF done.i <= Len(b.docsToProcess)
              THEN /\ builds' = (builds \ {b}) \cup {done}
                   /\ UNCHANGED <<nextId, posts>>
              ELSE /\ builds' = (builds \ {b}) \cup {Sealed(done, nextId)}
                   /\ nextId' = nextId + 2
                   /\ posts' = posts + 1
    /\ UNCHANGED <<envVars, patientVars, practitioner, formVars, fileVars, lastAlert, alertCount, rejections, acts,
                   invoiceVars, dateVars, abhaVars, loadVars>>

\* variant of ReadFailed that goes on with the placeholder in place of the file
ReadFailed_substitutesPlaceholder ==
    /\ variant = "doc"
    /\ \E b \in builds :
         /\ b.pc = "reading"
         /\ LET done == RunLoop([b EXCEPT !.docsToProcess[b.i] = NullFile]) IN
            IF done.i <= Len(b.docsToProcess)
              THEN /\ builds' = (builds \ {b}) \cup {done}
                   /\ UNCHANGED <<nextId, posts>>
              ELSE /\ builds' = (builds \ {b}) \cup {Sealed(done, nextId)}
                   /\ nextId' = nextId + 2
                   /\ posts' = posts + 1
    /\ UNCHANGED <<envVars, patientVars, practitioner, formVars, fileVars, lastAlert, alertCount, rejections, acts,
                   invoiceVars, dateVars, abhaVars, loadVars>>

\* fileToBase64NoPrefix's reader.onerror: the await throws, onBuildBundle's
\* promise rejects and nothing catches it
ReadFailed ==
    /\ variant = "doc"
    /\ \E b \in builds :
         /\ b.pc = "reading"
         /\ builds' = builds \ {b}
    /\ rejections' = rejections + 1
    /\ UNCHANGED <<envVars, nextId, patientVars, practitioner, formVars, fileVars, lastAlert, alertCount, posts, acts,
                   invoiceVars, dateVars, abhaVars, loadVars>>

\* App.js:588-592: the endpoint accepted the bundle
PostResolved ==
    /\ variant = "doc"
    /\ \E b \in builds :
         /\ b.pc = "posting"
         /\ builds' = builds \ {b}
    /\ Alert("FHIR Bundle Submitted Successfully")
    /\ UNCHANGED <<envVars, nextId, patientVars, practitioner, formVars, fileVars, posts, rejections, acts,
                   invoiceVars, dateVars, abhaVars, loadVars>>

\* variant of PostRejected that sends the bundle again
PostRejected_retries ==
    /\ variant = "doc"
    /\ \E b \in builds : b.pc = "posting"
    /\ posts' = posts + 1
    /\ Alert("Error submitting FHIR Bundle. See console.")
    /\ UNCHANGED <<envVars, nextId, patientVars, practitioner, formVars, fileVars, builds, rejections, acts,
                   invoiceVars, dateVars, abhaVars, loadVars>>

\* App.js:593-597: the endpoint was unreachable or rejected the bundle
PostRejected ==
    /\ variant = "doc"
    /\ \E b \in builds :
         /\ b.pc = "posting"
         /\ builds' = builds \ {b}
    /\ Alert("Error submitting FHIR Bundle. See console.")
    /\ UNCHANGED <<envVars, nextId, patientVars, practitioner, formVars, fileVars, posts, rejections, acts,
                   invoiceVars, dateVars, abhaVars, loadVars>>

NextDoc ==
    \/ ApiLoaded \/ ApiFailed \/ StaticLoaded \/ StaticFailed \/ AbhaEffect
    \/ SelectPatient \/ SelectAbha
    \/ SetStatus \/ SetTitle \/ SetEncounterRefText \/ SetCustodianName
    \/ SetAttesterMode \/ SetAttesterPartyType \/ SetAttesterOrgName
    \/ onFilesPicked \/ removeFileAtIndex
    \/ onBuildBundle \/ ReadLoaded \/ ReadFailed \/ PostResolved \/ PostRejected

(* ======================= invoice variant (part_000) ====================== *)
\* part_000:32-36, 46-58 and the mount effect of 117-123: the state after the
\* first render. GlobalPractitioner.id is the first identifier drawn, the first
\* line item's id the second; idx -1 stands for selectedPatientIdx === null.
InitInvoice ==
    /\ variant = "invoice"
    /\ gp = NoGP
    /\ nextId = 2
    /\ practitioner = [id |-> uuidv4(0), name |-> "Dr. ABC", license |-> "LIC-1234"]
    /\ patients = <<>> /\ loadPc = "static" /\ selectedPatientIdx = -1
    /\ abhaOptions = <<>> /\ selectedAbha = <<>> /\ abhaEffectPending = FALSE
    /\ status = "final" /\ title = <<>>
    /\ encounterRefText = "" /\ custodianName = ""
    /\ attesterMode = "official" /\ attesterPartyType = "Practitioner" /\ attesterOrgName = ""
    /\ files = <<>> /\ fileNamesPreview = <<>>
    /\ builds = {} /\ lastAlert = "" /\ alertCount = 0 /\ posts = 0 /\ rejections = 0 /\ acts = 0
    /\ lineItems = <<[id |-> uuidv4(1), amount |-> 500]>>
    /\ totalNet = <<500>> /\ totalGross = <<500>>
    /\ generatedBundle = NoBundle
    /\ dateIn = UndefinedSeq /\ dateOut = [fn |-> "none", out |-> UndefinedSeq]
    /\ abhaIn = NoPatient /\ abhaOut = [fn |-> "none", out |-> <<>>]
    /\ apiAnswer = NoAnswer /\ staticAnswer = NoAnswer

InvCanAct == variant = "invoice" /\ acts < MaxActs

\* part_000:67-76: /patients.json answered; an answer that is no list is taken
\* as the one patient
InvPatientsLoaded ==
    /\ variant = "invoice" /\ loadPc = "static"
    /\ \E data \in PatientLists \cup {<<>>, <<pFull>>} : patients' = data
    /\ loadPc' = "done"
    /\ UNCHANGED <<envVars, nextId, selectedPatientIdx, abhaOptions, selectedAbha, abhaEffectPending,
                   practitioner, formVars, fileVars, buildVars, acts, invoiceVars, dateVars, abhaVars, loadVars>>

\* part_000:77-80: the fetch failed
InvPatientsFailed ==
    /\ variant = "invoice" /\ loadPc = "static"
    /\ patients' = <<>>
    /\ loadPc' = "done"
    /\ UNCHANGED <<envVars, nextId, selectedPatientIdx, abhaOptions, selectedAbha, abhaEffectPending,
                   practitioner, formVars, fileVars, buildVars, acts, invoiceVars, dateVars, abhaVars, loadVars>>

RECURSIVE Uniq(_)
Uniq(list) ==
    IF list = <<>> THEN <<>>
    ELSE LET front == Uniq(SubSeq(list, 1, Len(list) - 1))
             last == list[Len(list)]
         IN IF \E k \in 1..Len(front) : front[k] = last THEN front ELSE Append(front, last)

RECURSIVE MapAbhaText(_)
MapAbhaText(arr) ==
    IF arr = <<>> THEN <<>>
    ELSE LET a == Head(arr)
             v == IF a.kind = "string" THEN a.text
                  ELSE IF a.kind = "object" THEN (IF a.address # UndefinedSeq THEN a.address ELSE JSONstringify(a))
                  ELSE <<>>
         IN (IF Truthy(v) THEN <<v>> ELSE <<>>) \o MapAbhaText(Tail(arr))

\* part_000:86-99 getAbhaAddressesForPatient
getAbhaAddressesForPatient(pt) ==
    IF pt = NoPatient THEN <<>>
    ELSE LET normalized == MapAbhaText(pt.nested_abha.items)
             withRef == IF Truthy(pt.abha_ref) /\ ~(\E k \in 1..Len(normalized) : normalized[k] = pt.abha_ref)
                          THEN <<pt.abha_ref>> \o normalized ELSE normalized
         IN Uniq(withRef)

\* part_000:365-369: the patient select; -1 is the "-- select patient --" option
InvSelectPatient ==
    /\ InvCanAct
    /\ \E v \in -1..(Len(patients) - 1) :
         /\ v # selectedPatientIdx
         /\ selectedPatientIdx' = v
    /\ selectedAbha' = <<>>
    /\ acts' = acts + 1
    /\ UNCHANGED <<envVars, nextId, patients, loadPc, abhaOptions, abhaEffectPending,
                   practitioner, formVars, fileVars, buildVars, invoiceVars, dateVars, abhaVars, loadVars>>

\* part_000:381-386: the ABHA select, enabled once a patient is selected
InvSelectAbha ==
    /\ InvCanAct /\ selectedPatientIdx # -1
    /\ \E a \in {<<>>} \cup {getAbhaAddressesForPatient(selectedPatient)[k] :
                              k \in 1..Len(getAbhaAddressesForPatient(selectedPatient))} :
         /\ a # selectedAbha
         /\ selectedAbha' = a
    /\ acts' = acts + 1
    /\ UNCHANGED <<envVars, nextId, patients, loadPc, selectedPatientIdx, abhaOptions, abhaEffectPending,
                   practitioner, formVars, fileVars, buildVars, invoiceVars, dateVars, abhaVars, loadVars>>

PractitionerNames == {"", "Dr. ABC", "Dr. Z"}
PractitionerLicenses == {"", "LIC-1234"}

\* part_000:404: the practitioner name input
SetPractitionerName ==
    /\ InvCanAct
    /\ \E v \in PractitionerNames \ {practitioner.name} : practitioner' = [practitioner EXCEPT !.name = v]
    /\ acts' = acts + 1
    /\ UNCHANGED <<envVars, nextId, patientVars, formVars, fileVars, buildVars, invoiceVars, dateVars, abhaVars, loadVars>>

\* part_000:408: the practitioner license input
SetPractitionerLicense ==
    /\ InvCanAct
    /\ \E v \in PractitionerLicenses \ {practitioner.license} : practitioner' = [practitioner EXCEPT !.license = v]
    /\ acts' = acts + 1
    /\ UNCHANGED <<envVars, nextId, patientVars, formVars, fileVars, buildVars, invoiceVars, dateVars, abhaVars, loadVars>>

RECURSIVE SumAmounts(_)
SumAmounts(items) == IF items = <<>> THEN 0 ELSE Head(items).amount + SumAmounts(Tail(items))

\* part_000:117-123: the effect that follows a render in which lineItems.length
\* changed; a total is recomputed only while it is the empty string
TotalsAfterLengthChange(total, items) == IF total = <<>> THEN <<SumAmounts(items)>> ELSE total

\* part_000:101-103 addLineItem, with the effect of 117-123
addLineItem ==
    /\ InvCanAct
    /\ lineItems' = Append(lineItems, [id |-> uuidv4(nextId), amount |-> 0])
    /\ nextId' = nextId + 1
    /\ totalNet' = TotalsAfterLengthChange(totalNet, lineItems')
    /\ totalGross' = TotalsAfterLengthChange(totalGross, lineItems')
    /\ acts' = acts + 1
    /\ UNCHANGED <<envVars, patientVars, practitioner, formVars, fileVars, buildVars, generatedBundle, dateVars, abhaVars, loadVars>>

Amounts == {0, 200, 500}

\* part_000:104-106, 449 updateLineItem(id, {amount}): the length is unchanged,
\* the effect does not run
updateLineItem ==
    /\ InvCanAct
    /\ \E k \in 1..Len(lineItems), v \in Amounts :
         /\ v # lineItems[k].amount
         /\ lineItems' = [lineItems EXCEPT ![k].amount = v]
    /\ acts' = acts + 1
    /\ UNCHANGED <<envVars, nextId, patientVars, practitioner, formVars, fileVars, buildVars,
                   totalNet, totalGross, generatedBundle, dateVars, abhaVars, loadVars>>

RECURSIVE FilterOutId(_, _)
FilterOutId(items, id) ==
    IF items = <<>> THEN <<>>
    ELSE (IF Head(items).id # id THEN <<Head(items)>> ELSE <<>>) \o FilterOutId(Tail(items), id)

\* part_000:107-109, 452 removeLineItem: the button is disabled for the last item
removeLineItem ==
    /\ InvCanAct /\ Len(lineItems) > 1
    /\ \E k \in 1..Len(lineItems) : lineItems' = FilterOutId(lineItems, lineItems[k].id)
    /\ totalNet' = TotalsAfterLengthChange(totalNet, lineItems')
    /\ totalGross' = TotalsAfterLengthChange(totalGross, lineItems')
    /\ acts' = acts + 1
    /\ UNCHANGED <<envVars, nextId, patientVars, practitioner, formVars, fileVars, buildVars, generatedBundle, dateVars, abhaVars, loadVars>>

\* what the user can type into a total: nothing, or a number
TotalTexts == {<<>>, <<700>>}

\* part_000:461
SetTotalNet ==
    /\ InvCanAct
    /\ \E v \in TotalTexts \ {totalNet} : totalNet' = v
    /\ acts' = acts + 1
    /\ UNCHANGED <<envVars, nextId, patientVars, practitioner, formVars, fileVars, buildVars,
                   lineItems, totalGross, generatedBundle, dateVars, abhaVars, loadVars>>

\* part_000:465
SetTotalGross ==
    /\ InvCanAct
    /\ \E v \in TotalTexts \ {totalGross} : totalGross' = v
    /\ acts' = acts + 1
    /\ UNCHANGED <<envVars, nextId, patientVars, practitioner, formVars, fileVars, buildVars,
                   lineItems, totalNet, generatedBundle, dateVars, abhaVars, loadVars>>

\* part_000:141-330: the Bundle buildBundle makes for the selected patient; n
\* counts the identifiers drawn before, birthDate is what toFhirDate returned
InvoiceBundle(n, birthDate) ==
    LET selPatient == selectedPatient
        hasRef == Truthy(selPatient.user_ref_id)
        patientId == IF hasRef THEN toLowerCase(selPatient.user_ref_id) ELSE uuidv4(n)
        n1 == n + B2N(~hasRef)
        compId == uuidv4(n1)
        hasPid == Truthy(practitioner.id) /\ Len(practitioner.id) > 0
        practitionerId == IF hasPid THEN practitioner.id ELSE uuidv4(n1 + 1)
        n2 == n1 + 1 + B2N(~hasPid)
        orgId == uuidv4(n2)
        invoiceId == uuidv4(n2 + 1)
        patientResource ==
            [resourceType |-> "Patient",
             id |-> patientId,
             identifier |->
                <<[code |-> "MR",
                   value |-> IF hasRef THEN selPatient.user_ref_id
                             ELSE <<"mrn-">> \o (IF selPatient.id = UndefinedSeq THEN <<"undefined">> ELSE selPatient.id)],
                  [code |-> "ABHA", value |-> selectedAbha]>>,
             name |-> <<[text |-> selPatient.name]>>,
             gender |-> IF TruthyStr(selPatient.gender) THEN LowerOf(selPatient.gender) ELSE Undefined,
             birthDate |-> birthDate,
             telecom |-> (IF TruthyStr(selPatient.mobile) THEN <<[system |-> "phone", value |-> <<selPatient.mobile>>]>> ELSE <<>>)
                         \o (IF TruthyStr(selPatient.email) THEN <<[system |-> "email", value |-> <<selPatient.email>>]>> ELSE <<>>),
             address |-> IF TruthyStr(selPatient.address) THEN <<[text |-> selPatient.address]>> ELSE <<>>]
        practitionerResource ==
            [resourceType |-> "Practitioner",
             id |-> practitionerId,
             license |-> IF TruthyStr(practitioner.license) THEN practitioner.license ELSE Undefined,
             name |-> <<[text |-> IF TruthyStr(practitioner.name) THEN practitioner.name ELSE "Unknown Practitioner"]>>]
        organizationResource ==
            [resourceType |-> "Organization", id |-> orgId, facility |-> "ORG-001", name |-> "Issuer Organization"]
        netVal == IF totalNet # <<>> THEN totalNet[1] ELSE SumAmounts(lineItems)
        grossVal == IF totalGross # <<>> THEN totalGross[1] ELSE netVal
        invoiceResource ==
            [resourceType |-> "Invoice",
             id |-> invoiceId,
             status |-> "issued",
             subject |-> Ref(patientId),
             recipient |-> Ref(patientId),
             issuer |-> Ref(orgId),
             totalNet |-> netVal,
             totalGross |-> grossVal,
             lineItem |-> [k \in 1..Len(lineItems) |-> [sequence |-> k, amount |-> lineItems[k].amount]]]
        compositionResource ==
            [resourceType |-> "Composition",
             id |-> compId,
             status |-> "final",
             subject |-> Ref(patientId),
             encounter |-> NoRef,
             author |-> <<[reference |-> Ref(practitionerId), display |-> practitioner.name]>>,
             title |-> <<"Invoice">>,
             attester |-> <<[mode |-> "official", party |-> Ref(practitionerId)]>>,
             custodian |-> NoRef,
             section |-> <<[title |-> "Invoice Section",
                            entry |-> <<[reference |-> Ref(invoiceId), type |-> "Invoice"]>>]>>]
    IN [bundle |-> [resourceType |-> "Bundle",
                    id |-> uuidv4(n2 + 2),
                    identifier |-> <<"invoice-bundle-">>,
                    type |-> "document",
                    entry |-> <<Entry(compositionResource), Entry(patientResource), Entry(practitionerResource),
                                Entry(organizationResource), Entry(invoiceResource)>>],
        drawn |-> n2 + 3 - n]

\* part_000:126-139, 332-334, 470: a click on Generate Bundle, which is disabled
\* while no patient is selected
buildBundle ==
    /\ InvCanAct /\ selectedPatientIdx # -1
    /\ acts' = acts + 1
    /\ IF selectedPatient = NoPatient
         THEN /\ Alert("Selected patient not found.")
              /\ UNCHANGED <<nextId, generatedBundle>>
       ELSE IF ~Truthy(selectedAbha)
         THEN /\ Alert("Please select an ABHA address for the patient.")
              /\ UNCHANGED <<nextId, generatedBundle>>
       ELSE \E birthDate \in toFhirDate(selectedPatient.dob) :
              LET made == InvoiceBundle(nextId, birthDate) IN
              /\ generatedBundle' = made.bundle
              /\ nextId' = nextId + made.drawn
              /\ UNCHANGED <<lastAlert, alertCount>>
    /\ UNCHANGED <<envVars, patientVars, practitioner, formVars, fileVars, builds, posts, rejections,
                   lineItems, totalNet, totalGross, dateVars, abhaVars, loadVars>>

NextInvoice ==
    \/ InvPatientsLoaded \/ InvPatientsFailed
    \/ InvSelectPatient \/ InvSelectAbha
    \/ SetPractitionerName \/ SetPractitionerLicense
    \/ addLineItem \/ updateLineItem \/ removeLineItem \/ SetTotalNet \/ SetTotalGross
    \/ buildBundle

Init == InitDoc \/ InitInvoice
Next == NextDoc \/ NextInvoice
Spec == Init /\ [][Next]_vars

(* ================= the date normalisers on their own ===================== *)
DayTexts == {<<"1">>, <<"0", "1">>, <<"2", "5">>}
MonthTexts == {<<"2">>, <<"1", "2">>}
YearTexts == {<<"1", "9", "9", "0">>, <<"9", "0">>}
Separators == {"-", "/"}

\* day, month and year joined by two separators, alike or not
DayMonthYearTexts ==
    {d \o <<s1>> \o m \o <<s2>> \o y : d \in DayTexts, m \in MonthTexts, y \in YearTexts,
                                       s1 \in Separators, s2 \in Separators}

OtherDateTexts ==
    {<<"1", "9", "9", "0", "-", "1", "2", "-", "2", "5">>,
     <<"1", "9", "9", "0", "-", "0", "2", "-", "0", "1">>,
     <<" ", "1", "9", "9", "0", "-", "1", "2", "-", "2", "5">>,
     <<"1", "9", "9", "0", "/", "1", "2", "/", "2", "5">>,
     <<"n", "o", "t", "-", "a", "-", "d", "a", "t", "e">>,
     <<"2", "5", "-", "1", "2">>,
     <<"-", "-">>,
     <<"2", "5", "1", "2", "1", "9", "9", "0">>,
     <<>>,
     UndefinedSeq}

\* year, month and day of four, two and two digits, joined by "-"
IsoTexts ==
    {y \o <<"-">> \o m \o <<"-">> \o d : y \in {t \in YearTexts : Len(t) = 4},
                                             m \in {t \in MonthTexts : Len(t) = 2},
                                             d \in {t \in DayTexts : Len(t) = 2}}

DateInputs == DayMonthYearTexts \cup IsoTexts \cup OtherDateTexts

InitDate ==
    /\ variant = "date"
    /\ dateIn \in DateInputs
    /\ dateOut = [fn |-> "none", out |-> UndefinedSeq]
    /\ abhaIn = NoPatient /\ abhaOut = [fn |-> "none", out |-> <<>>]
    /\ apiAnswer = NoAnswer /\ staticAnswer = NoAnswer
    /\ gp = NoGP /\ nextId = 0
    /\ practitioner = [id |-> UndefinedSeq, name |-> "", license |-> ""]
    /\ patients = <<>> /\ loadPc = "done" /\ selectedPatientIdx = -1
    /\ abhaOptions = <<>> /\ selectedAbha = <<>> /\ abhaEffectPending = FALSE
    /\ status = "final" /\ title = <<>>
    /\ encounterRefText = "" /\ custodianName = ""
    /\ attesterMode = "official" /\ attesterPartyType = "Practitioner" /\ attesterOrgName = ""
    /\ files = <<>> /\ fileNamesPreview = <<>>
    /\ builds = {} /\ lastAlert = "" /\ alertCount = 0 /\ posts = 0 /\ rejections = 0 /\ acts = 0
    /\ lineItems = <<>> /\ totalNet = <<>> /\ totalGross = <<>> /\ generatedBundle = NoBundle

\* a call ddmmyyyyToISO(dateIn)
CallDdmmyyyyToISO ==
    /\ variant = "date" /\ dateOut.fn = "none"
    /\ dateOut' = [fn |-> "ddmmyyyyToISO", out |-> ddmmyyyyToISO(dateIn)]
    /\ UNCHANGED <<envVars, nextId, patientVars, practitioner, formVars, fileVars, buildVars, acts, invoiceVars, dateIn, abhaVars, loadVars>>

\* a call toFhirDate(dateIn)
CallToFhirDate ==
    /\ variant = "date" /\ dateOut.fn = "none"
    /\ \E r \in toFhirDate(dateIn) : dateOut' = [fn |-> "toFhirDate", out |-> r]
    /\ UNCHANGED <<envVars, nextId, patientVars, practitioner, formVars, fileVars, buildVars, acts, invoiceVars, dateIn, abhaVars, loadVars>>

NextDate == CallDdmmyyyyToISO \/ CallToFhirDate
SpecDate == InitDate /\ [][NextDate]_vars

(* ------------- the ABHA address normalisers on their own ---------------- *)
\* longest abha_addresses list given to the normalisers
MaxAddrs == 3

AbhaTexts == {<<"a", "@", "x">>, <<"b", "@", "x">>, <<"a", "@", "b">>}

\* a null entry of the list
AbhaNull == [kind |-> "null", text |-> <<>>, address |-> UndefinedSeq, isPrimary |-> FALSE]

\* what an abha_addresses list can hold: plain strings, objects tagged with an
\* address and a primary flag, an object without address, null
AbhaItems ==
    {AbhaString(t) : t \in AbhaTexts}
    \cup {AbhaObject(t, TRUE) : t \in AbhaTexts}
    \cup {AbhaObject(<<"a", "@", "x">>, FALSE), AbhaObject(UndefinedSeq, TRUE), AbhaNull}

AbhaLists == UNION {[1..n -> AbhaItems] : n \in 0..MaxAddrs}

\* patients that differ in their abha_addresses and abha_ref only
AbhaPatients ==
    {[pBare EXCEPT !.nested_abha = ArrayOf(l), !.abha_ref = r] :
        l \in AbhaLists, r \in {UndefinedSeq, <<"a", "@", "x">>}}

InitAbha ==
    /\ variant = "abha"
    /\ abhaIn \in AbhaPatients
    /\ abhaOut = [fn |-> "none", out |-> <<>>]
    /\ apiAnswer = NoAnswer /\ staticAnswer = NoAnswer
    /\ dateIn = UndefinedSeq /\ dateOut = [fn |-> "none", out |-> UndefinedSeq]
    /\ gp = NoGP /\ nextId = 0
    /\ practitioner = [id |-> UndefinedSeq, name |-> "", license |-> ""]
    /\ patients = <<>> /\ loadPc = "done" /\ selectedPatientIdx = -1
    /\ abhaOptions = <<>> /\ selectedAbha = <<>> /\ abhaEffectPending = FALSE
    /\ status = "final" /\ title = <<>>
    /\ encounterRefText = "" /\ custodianName = ""
    /\ attesterMode = "official" /\ attesterPartyType = "Practitioner" /\ attesterOrgName = ""
    /\ files = <<>> /\ fileNamesPreview = <<>>
    /\ builds = {} /\ lastAlert = "" /\ alertCount = 0 /\ posts = 0 /\ rejections = 0 /\ acts = 0
    /\ lineItems = <<>> /\ totalNet = <<>> /\ totalGross = <<>> /\ generatedBundle = NoBundle

\* a call normalizeAbhaAddresses(abhaIn)
CallNormalizeAbhaAddresses ==
    /\ variant = "abha" /\ abhaOut.fn = "none"
    /\ abhaOut' = [fn |-> "normalizeAbhaAddresses", out |-> normalizeAbhaAddresses(abhaIn)]
    /\ UNCHANGED <<envVars, nextId, patientVars, practitioner, formVars, fileVars, buildVars, acts,
                   invoiceVars, dateVars, abhaIn, loadVars>>

\* a call getAbhaAddressesForPatient(abhaIn)
CallGetAbhaAddressesForPatient ==
    /\ variant = "abha" /\ abhaOut.fn = "none"
    /\ abhaOut' = [fn |-> "getAbhaAddressesForPatient", out |-> getAbhaAddressesForPatient(abhaIn)]
    /\ UNCHANGED <<envVars, nextId, patientVars, practitioner, formVars, fileVars, buildVars, acts,
                   invoiceVars, dateVars, abhaIn, loadVars>>

NextAbha == CallNormalizeAbhaAddresses \/ CallGetAbhaAddressesForPatient
SpecAbha == InitAbha /\ [][NextAbha]_vars

(* ------- a click for every patient record, whatever fields it has -------- *)
\* the patient records with any of the optional fields missing
OptionalFieldPatients ==
    {[name |-> n, gender |-> g, dob |-> d, mobile |-> m, email |-> e, address |-> a,
      mrn |-> mr, user_ref_id |-> u, abha_ref |-> r, id |-> UndefinedSeq,
      nested_abha |-> l, abha_addresses |-> NotArray] :
        n \in {Undefined, pFull.name}, g \in {Undefined, pFull.gender}, d \in {UndefinedSeq, pFull.dob},
        m \in {Undefined, pFull.mobile}, e \in {Undefined, pFull.email}, a \in {Undefined, pFull.address},
        mr \in {UndefinedSeq, pFull.mrn}, u \in {UndefinedSeq, pFull.user_ref_id},
        r \in {UndefinedSeq, pFull.abha_ref}, l \in {NotArray, pFull.nested_abha}}

\* the patient list is loaded, its one patient is selected and so is the first
\* of the patient's ABHA addresses if there is one; status and title are the
\* doc variant's defaults; the user has one action left
InitOpt ==
    /\ variant \in {"doc", "invoice"}
    /\ \E p \in OptionalFieldPatients :
         /\ patients = <<p>>
         /\ abhaOptions = IF variant = "doc" THEN normalizeAbhaAddresses(p) ELSE <<>>
         /\ selectedAbha = IF variant = "doc" THEN FirstAbha(normalizeAbhaAddresses(p))
                           ELSE IF getAbhaAddressesForPatient(p) # <<>> THEN getAbhaAddressesForPatient(p)[1]
                           ELSE <<>>
    /\ loadPc = "done" /\ selectedPatientIdx = 0 /\ abhaEffectPending = FALSE
    /\ gp \in (IF variant = "doc" THEN GlobalPractitioners ELSE {NoGP})
    /\ nextId = 2
    /\ practitioner = IF variant = "doc" THEN resolveGlobalPractitioner(gp, 1)
                      ELSE [id |-> uuidv4(0), name |-> "Dr. ABC", license |-> "LIC-1234"]
    /\ status = "final" /\ title = IF variant = "doc" THEN <<"R", "x">> ELSE <<>>
    /\ encounterRefText = "" /\ custodianName = ""
    /\ attesterMode = IF variant = "doc" THEN "professional" ELSE "official"
    /\ attesterPartyType = "Practitioner" /\ attesterOrgName = ""
    /\ files = <<>> /\ fileNamesPreview = <<>>
    /\ builds = {} /\ lastAlert = "" /\ alertCount = 0 /\ posts = 0 /\ rejections = 0
    /\ acts = MaxActs - 1
    /\ lineItems = IF variant = "doc" THEN <<>> ELSE <<[id |-> uuidv4(1), amount |-> 500]>>
    /\ totalNet = (IF variant = "doc" THEN <<>> ELSE <<500>>)
    /\ totalGross = (IF variant = "doc" THEN <<>> ELSE <<500>>)
    /\ generatedBundle = NoBundle
    /\ dateIn = UndefinedSeq /\ dateOut = [fn |-> "none", out |-> UndefinedSeq]
    /\ abhaIn = NoPatient /\ abhaOut = [fn |-> "none", out |-> <<>>]
    /\ apiAnswer = NoAnswer /\ staticAnswer = NoAnswer

NextOpt == onBuildBundle \/ PostResolved \/ PostRejected \/ buildBundle
SpecOpt == InitOpt /\ [][NextOpt]_vars

(* ------------- the invoice form with its totals left untyped ------------- *)
\* part_000:40-62, 117-123: the patient list is loaded, a patient and one of
\* the patient's ABHA addresses are selected; the one initial line item is in
\* place and the effect has filled both totals from it
InitTotals ==
    /\ variant = "invoice"
    /\ gp = NoGP
    /\ nextId = 2
    /\ practitioner = [id |-> uuidv4(0), name |-> "Dr. ABC", license |-> "LIC-1234"]
    /\ patients = <<pAsha, pFull>> /\ loadPc = "done"
    /\ selectedPatientIdx \in {i \in 0..1 : getAbhaAddressesForPatient(patients[i + 1]) # <<>>}
    /\ abhaOptions = <<>>
    /\ selectedAbha \in {getAbhaAddressesForPatient(selectedPatient)[k] :
                            k \in 1..Len(getAbhaAddressesForPatient(selectedPatient))}
    /\ abhaEffectPending = FALSE
    /\ status = "final" /\ title = <<>>
    /\ encounterRefText = "" /\ custodianName = ""
    /\ attesterMode = "official" /\ attesterPartyType = "Practitioner" /\ attesterOrgName = ""
    /\ files = <<>> /\ fileNamesPreview = <<>>
    /\ builds = {} /\ lastAlert = "" /\ alertCount = 0 /\ posts = 0 /\ rejections = 0 /\ acts = 0
    /\ lineItems = <<[id |-> uuidv4(1), amount |-> 500]>>
    /\ totalNet = TotalsAfterLengthChange(<<>>, lineItems)
    /\ totalGross = TotalsAfterLengthChange(<<>>, lineItems)
    /\ generatedBundle = NoBundle
    /\ dateIn = UndefinedSeq /\ dateOut = [fn |-> "none", out |-> UndefinedSeq]
    /\ abhaIn = NoPatient /\ abhaOut = [fn |-> "none", out |-> <<>>]
    /\ apiAnswer = NoAnswer /\ staticAnswer = NoAnswer

\* the user works on the line items and generates bundles; neither total input
\* is typed into
NextTotals == addLineItem \/ updateLineItem \/ removeLineItem \/ buildBundle
SpecTotals == InitTotals /\ [][NextTotals]_vars

(* --------------- the doc form with files already picked ------------------ *)
\* App.js:166-194, 294-298: the patient list is loaded and its first patient
\* selected, the form holds its defaults and the user has picked two files;
\* the user's actions are counted from here on
InitOverlap ==
    /\ variant = "doc"
    /\ gp = gpFhir
    /\ nextId = 2
    /\ practitioner = resolveGlobalPractitioner(gp, 1)
    /\ patients = <<pAsha, pFull>> /\ loadPc = "done" /\ selectedPatientIdx = 0
    /\ abhaOptions = normalizeAbhaAddresses(pAsha)
    /\ selectedAbha = FirstAbha(normalizeAbhaAddresses(pAsha))
    /\ abhaEffectPending = FALSE
    /\ status = "final" /\ title = <<"R", "x">>
    /\ encounterRefText = "" /\ custodianName = ""
    /\ attesterMode = "professional" /\ attesterPartyType = "Practitioner" /\ attesterOrgName = ""
    /\ files \in {q \in FilePicks : Len(q) = 2} /\ fileNamesPreview = MapName(files)
    /\ builds = {} /\ lastAlert = "" /\ alertCount = 0 /\ posts = 0 /\ rejections = 0 /\ acts = 0
    /\ lineItems = <<>> /\ totalNet = <<>> /\ totalGross = <<>> /\ generatedBundle = NoBundle
    /\ dateIn = UndefinedSeq /\ dateOut = [fn |-> "none", out |-> UndefinedSeq]
    /\ abhaIn = NoPatient /\ abhaOut = [fn |-> "none", out |-> <<>>]
    /\ apiAnswer = NoAnswer /\ staticAnswer = NoAnswer

\* everything the doc variant does once the patients are loaded
NextOverlap ==
    \/ AbhaEffect \/ SelectPatient \/ SelectAbha
    \/ SetStatus \/ SetTitle \/ SetEncounterRefText \/ SetCustodianName
    \/ SetAttesterMode \/ SetAttesterPartyType \/ SetAttesterOrgName
    \/ onFilesPicked \/ removeFileAtIndex
    \/ onBuildBundle \/ ReadLoaded \/ ReadFailed \/ PostResolved \/ PostRejected
SpecOverlap == InitOverlap /\ [][NextOverlap]_vars

(* ============================== properties =============================== *)
\* the invocations of onBuildBundle that built their bundle and sent it
Posting == {b \in builds : b.pc = "posting"}

\* every bundle a build produced that the program still holds: the bundles in
\* flight to the endpoint, and the invoice variant's displayed bundle
BuiltBundles ==
    {b.bundle : b \in Posting} \cup (IF generatedBundle.resourceType = "Bundle" THEN {generatedBundle} ELSE {})

Range(seq) == {seq[k] : k \in 1..Len(seq)}

TypesOf(bundle) == [k \in 1..Len(bundle.entry) |-> bundle.entry[k].resource.resourceType]

OfType(bundle, t) == SelectSeq(bundle.entry, LAMBDA e : e.resource.resourceType = t)

\* the reference strings a record holds
RefsOf(res) ==
    IF res.resourceType = "Composition"
      THEN {res.subject}
           \cup {a.reference : a \in Range(res.author)}
           \cup {a.party : a \in Range(res.attester)}
           \cup ({res.custodian, res.encounter} \ {NoRef})
           \cup UNION {{e.reference : e \in Range(sec.entry)} : sec \in Range(res.section)}
    ELSE IF res.resourceType = "Encounter" THEN {res.subject}
    ELSE IF res.resourceType = "DocumentReference" THEN {res.subject, res.attachment.url}
    ELSE IF res.resourceType = "Invoice" THEN {res.subject, res.recipient, res.issuer}
    ELSE {}

FullUrls(bundle) == {e.fullUrl : e \in Range(bundle.entry)}

\* C1: in every built bundle, every reference string held by any record
\* (Composition subject, author, attester party, custodian, encounter, section
\* entries; Encounter subject; DocumentReference subject and attachment url;
\* Invoice subject, recipient, issuer) is the fullUrl of an entry of that bundle.
C1_NoDanglingReference ==
    \A bundle \in BuiltBundles :
        \A e \in Range(bundle.entry) : RefsOf(e.resource) \subseteq FullUrls(bundle)

\* C1 witness: a bundle whose Composition refers to an Encounter and a custodian
C1_Witness ==
    \E bundle \in BuiltBundles :
        /\ bundle.entry[1].resource.encounter # NoRef
        /\ bundle.entry[1].resource.custodian # NoRef

\* C2: in every built bundle no two entries share a fullUrl or a record id,
\* also when the Practitioner id comes from the injected practitioner object
\* or the Patient id from the patient's user_ref_id.
C2_UniqueIds ==
    \A bundle \in BuiltBundles :
        \A j, k \in 1..Len(bundle.entry) :
            j # k => /\ bundle.entry[j].fullUrl # bundle.entry[k].fullUrl
                     /\ bundle.entry[j].resource.id # bundle.entry[k].resource.id

\* C2 witness: a bundle of two documents whose Practitioner carries the injected id
C2_Witness ==
    \E bundle \in BuiltBundles :
        /\ bundle.entry[3].resource.id = gpFhir.id
        /\ Len(OfType(bundle, "Binary")) = 2

\* place of an entry in the fixed order; an Organization is the custodian's when
\* the Composition names it as custodian, else the attester's
OrderRank(bundle, e) ==
    LET t == e.resource.resourceType IN
    CASE t = "Composition" -> 1
      [] t = "Patient" -> 2
      [] t = "Practitioner" -> 3
      [] t = "Encounter" -> 4
      [] t = "Organization" -> IF e.fullUrl = bundle.entry[1].resource.custodian THEN 5 ELSE 6
      [] t = "DocumentReference" -> 7
      [] t = "Binary" -> 8
      [] OTHER -> 9

Max(a, b) == IF a >= b THEN a ELSE b

\* C4: a bundle built while N files were selected has max(1, N) Binary entries
\* and as many DocumentReference entries.
C4_AttachmentCount ==
    \A b \in Posting :
        /\ Len(OfType(b.bundle, "Binary")) = Max(1, Len(b.files))
        /\ Len(OfType(b.bundle, "DocumentReference")) = Max(1, Len(b.files))

\* C4 witness: a bundle built from two selected files
C4_Witness == \E b \in Posting : Len(b.files) = 2 /\ Len(OfType(b.bundle, "Binary")) = 2

\* C5: a bundle built while no file was selected has exactly one
\* DocumentReference and one Binary; the Binary has content type application/pdf
\* and the placeholder payload, the DocumentReference's attachment the
\* placeholder filename.
C5_Placeholder ==
    \A b \in Posting :
        Len(b.files) = 0 =>
            LET bins == OfType(b.bundle, "Binary")
                refs == OfType(b.bundle, "DocumentReference")
            IN /\ Len(bins) = 1 /\ Len(refs) = 1
               /\ bins[1].resource.contentType = "application/pdf"
               /\ bins[1].resource.data = <<"JVBERi0xLjQKJeLjz9MK">>
               /\ refs[1].resource.attachment.title = "placeholder.pdf"
               /\ refs[1].resource.attachment.contentType = "application/pdf"
               /\ refs[1].resource.attachment.url = bins[1].fullUrl

\* C5 witness: a bundle built with no file selected
C5_Witness == \E b \in Posting : Len(b.files) = 0 /\ Len(OfType(b.bundle, "Binary")) = 1

TypeOrPdf(f) == IF f.type = "" THEN "application/pdf" ELSE f.type
NameOrPlaceholder(f) == IF f.name = "" THEN "placeholder.pdf" ELSE f.name

\* the i-th DocumentReference and Binary of a bundle carry the i-th of `fs`,
\* with the content type and title the files declare (defaults = FALSE) or
\* with application/pdf and placeholder.pdf standing in for empty ones
CarriesFiles(bundle, fs, defaults) ==
    LET bins == OfType(bundle, "Binary")
        refs == OfType(bundle, "DocumentReference")
    IN /\ Len(bins) = Len(fs) /\ Len(refs) = Len(fs)
       /\ \A i \in 1..Len(fs) :
            /\ refs[i].resource.attachment.title = (IF defaults THEN NameOrPlaceholder(fs[i]) ELSE fs[i].name)
            /\ refs[i].resource.attachment.contentType = (IF defaults THEN TypeOrPdf(fs[i]) ELSE fs[i].type)
            /\ bins[i].resource.contentType = (IF defaults THEN TypeOrPdf(fs[i]) ELSE fs[i].type)
            /\ bins[i].resource.data = <<Base64Of(fs[i].bytes)>>
            /\ refs[i].resource.attachment.url = bins[i].fullUrl


\* C6 as stated: with N >= 1 files selected and all reads done, the i-th
\* DocumentReference and the i-th Binary carry the filename, content type and
\* encoded content of the i-th file, and the i-th attachment url refers to the
\* i-th Binary.
C6_Original ==
    \A b \in Posting : Len(b.files) >= 1 => CarriesFiles(b.bundle, b.files, FALSE)

\* C6 amended: as C6_Original, but a file whose content type is empty is
\* carried as application/pdf (and one whose name is empty as placeholder.pdf).
C6_FilesInOrder ==
    \A b \in Posting : Len(b.files) >= 1 => CarriesFiles(b.bundle, b.files, TRUE)

\* C6 witness: a bundle built from two different files, one of them without a
\* content type
C6_Witness ==
    \E b \in Posting :
        /\ Len(b.files) = 2 /\ b.files[1] # b.files[2]
        /\ \E i \in 1..2 : b.files[i].type = ""

\* C7: the Composition of every built bundle has exactly one section, and the
\* references of that section's entries are exactly the fullUrls of the
\* bundle's DocumentReference entries (invoice variant: of its one Invoice entry).
C7_SectionCoversDocuments ==
    \A bundle \in BuiltBundles :
        LET comp == bundle.entry[1].resource
            target == IF variant = "invoice" THEN "Invoice" ELSE "DocumentReference"
        IN /\ Len(comp.section) = 1
           /\ {e.reference : e \in Range(comp.section[1].entry)}
                = {e.fullUrl : e \in Range(OfType(bundle, target))}
           /\ variant = "invoice" => Len(OfType(bundle, "Invoice")) = 1

\* C7 witness: a bundle with two DocumentReferences, both in the section
C7_Witness ==
    \E bundle \in BuiltBundles :
        /\ Len(OfType(bundle, "DocumentReference")) = 2
        /\ Len(bundle.entry[1].resource.section[1].entry) = 2

\* a step that is a click on Submit / Generate: the user acted and no input changed
ClickStep ==
    /\ acts' = acts + 1
    /\ UNCHANGED <<patientVars, practitioner, formVars, fileVars, lineItems, totalNet, totalGross>>

\* no patient selected, title empty or blanks only, or status empty
MissingRequiredDoc ==
    \/ selectedPatient = NoPatient
    \/ \A i \in 1..Len(title) : title[i] = " "
    \/ status = ""

MissingRequiredInvoice == selectedPatient = NoPatient \/ selectedAbha = <<>>

MissingInputMessages ==
    {"Please select a patient (required).", "Title is required.", "Status is required.",
     "Selected patient not found.", "Please select an ABHA address for the patient."}

\* C8: a click while a required input is missing (doc variant: no patient,
\* title empty or whitespace-only, status empty; invoice variant: no patient or
\* no ABHA address) draws no identifier, starts no build, sends no submission,
\* displays no bundle, and shows one alert.
C8_MissingInputAborts ==
    [][(/\ ClickStep
        /\ \/ variant = "doc" /\ MissingRequiredDoc
           \/ variant = "invoice" /\ MissingRequiredInvoice)
       => /\ nextId' = nextId
          /\ builds' = builds
          /\ posts' = posts
          /\ generatedBundle' = generatedBundle
          /\ alertCount' = alertCount + 1
          /\ lastAlert' \in MissingInputMessages]_vars

\* C8 witness: a click with a whitespace-only title was refused
C8_Witness ==
    /\ variant = "doc" /\ selectedPatient # NoPatient /\ title = <<" ", " ">>
    /\ lastAlert = "Title is required."
    /\ builds = {} /\ posts = 0

\* the injected practitioner object is missing, or has no usable name or license
NoUsablePractitioner ==
    \/ ~gp.present
    \/ ~(TruthyStr(gp.nameText) \/ TruthyStr(gp.nameString))
    \/ ~(TruthyStr(gp.identifierValue) \/ TruthyStr(gp.license))

\* C9 as stated: without a usable injected practitioner no build produces a bundle.
C9_Original == (variant = "doc" /\ NoUsablePractitioner) => (Posting = {} /\ posts = 0)

ExpectedPractitionerName ==
    IF TruthyStr(gp.nameText) THEN gp.nameText ELSE IF TruthyStr(gp.nameString) THEN gp.nameString ELSE "Dr. ABC"
ExpectedPractitionerLicense ==
    IF TruthyStr(gp.identifierValue) THEN gp.identifierValue ELSE IF TruthyStr(gp.license) THEN gp.license ELSE "LIC-0000"

\* C9 amended: the practitioner is always resolved. A click with the required
\* inputs present starts a build whatever the injected practitioner object is,
\* with no alert; a missing name is replaced by "Dr. ABC" and a missing license
\* by "LIC-0000" in the Practitioner record and the author display. In the
\* invoice variant an empty practitioner name is replaced by "Unknown
\* Practitioner" and the bundle is generated.
C9_PractitionerFallback ==
    [][/\ (ClickStep /\ variant = "doc" /\ ~MissingRequiredDoc)
          => /\ alertCount' = alertCount
             /\ \E b \in builds' \ builds :
                  /\ b.practitionerRes.name = <<[text |-> ExpectedPractitionerName]>>
                  /\ b.practitionerRes.license = ExpectedPractitionerLicense
                  /\ b.authorDisplay = ExpectedPractitionerName
       /\ (ClickStep /\ variant = "invoice" /\ ~MissingRequiredInvoice)
          => /\ alertCount' = alertCount
             /\ generatedBundle'.resourceType = "Bundle"
             /\ generatedBundle'.entry[3].resource.name =
                  <<[text |-> IF practitioner.name = "" THEN "Unknown Practitioner" ELSE practitioner.name]>>]_vars

\* C9 witness: a bundle was built and sent although no practitioner object was injected
C9_Witness ==
    \E b \in Posting :
        /\ ~gp.present
        /\ b.bundle.entry[3].resource.name = <<[text |-> "Dr. ABC"]>>
        /\ b.bundle.entry[3].resource.license = "LIC-0000"

\* x with a leading zero when it is one digit
Pad2(x) == IF Len(x) = 1 THEN <<"0">> \o x ELSE x

\* C10: the date normalisers (ddmmyyyyToISO, toFhirDate) return an input of the
\* form YYYY-MM-DD unchanged, and turn D-M-YYYY and D/M/YYYY (day and month of
\* one or two digits) into YYYY-MM-DD with day and month padded to two digits.
C10_DateNormalised ==
    dateOut.fn # "none" =>
        /\ dateIn \in IsoTexts => dateOut.out = dateIn
        /\ \A d \in DayTexts, m \in MonthTexts, y \in {t \in YearTexts : Len(t) = 4}, sep \in Separators :
             dateIn = d \o <<sep>> \o m \o <<sep>> \o y
                => dateOut.out = y \o <<"-">> \o Pad2(m) \o <<"-">> \o Pad2(d)

\* C10 witness: "1/2/1990" was normalised to "1990-02-01"
C10_Witness ==
    /\ dateIn = <<"1", "/", "2", "/", "1", "9", "9", "0">>
    /\ dateOut = [fn |-> "ddmmyyyyToISO", out |-> <<"1", "9", "9", "0", "-", "0", "2", "-", "0", "1">>]

\* the date inputs that are neither YYYY-MM-DD nor day, month and year joined
\* by "-" or "/"
NonDateTexts ==
    {<<"n", "o", "t", "-", "a", "-", "d", "a", "t", "e">>,
     <<"1", "9", "9", "0", "/", "1", "2", "/", "2", "5">>,
     <<"2", "5", "-", "1", "2">>,
     <<"-", "-">>,
     <<"2", "5", "1", "2", "1", "9", "9", "0">>}

\* C11 as stated: for an input that is neither YYYY-MM-DD nor a day-month-year
\* date separated by "-" or "/" (such as "not-a-date"), ddmmyyyyToISO returns
\* undefined, so that the Patient gets no birthDate.
C11_Original ==
    (dateOut.fn = "ddmmyyyyToISO" /\ dateIn \in NonDateTexts) => dateOut.out = UndefinedSeq

\* C12 as stated: the date normalisers are idempotent: applying one to its own
\* result gives that result again, for every date-like input.
C12_Original ==
    /\ dateOut.fn = "ddmmyyyyToISO" => ddmmyyyyToISO(dateOut.out) = dateOut.out
    /\ dateOut.fn = "toFhirDate" => toFhirDate(dateOut.out) = {dateOut.out}

\* the entries of a list that are plain strings or objects tagged with an address
IsStringOrTagged(item) ==
    \/ item.kind = "string" /\ item.text # <<>>
    \/ item.kind = "object" /\ item.address # UndefinedSeq

\* the value and the primary flag an input entry stands for
AddressOf(item) ==
    IF item.kind = "string" THEN [value |-> item.text, primary |-> FALSE]
    ELSE [value |-> item.address, primary |-> item.isPrimary]

\* characters of the addresses, in ascending order
CharOrder == <<"@", "a", "b", "x">>
CharRank(c) == CHOOSE i \in 1..Len(CharOrder) : CharOrder[i] = c

\* a comes before b, or is b, in lexicographic order
RECURSIVE LexLeq(_, _)
LexLeq(a, b) ==
    IF a = <<>> THEN TRUE
    ELSE IF b = <<>> THEN FALSE
    ELSE IF Head(a) = Head(b) THEN LexLeq(Tail(a), Tail(b))
    ELSE CharRank(Head(a)) < CharRank(Head(b))

C14_Original ==
    /\ abhaOut.fn = "normalizeAbhaAddresses" =>
         \A i \in 1..Len(abhaOut.out), j \in 1..Len(abhaOut.out) :
            i # j => abhaOut.out[i].value # abhaOut.out[j].value
    /\ abhaOut.fn = "getAbhaAddressesForPatient" =>
         \A i \in 1..Len(abhaOut.out), j \in 1..Len(abhaOut.out) :
            i # j => abhaOut.out[i] # abhaOut.out[j]

\* the identifier values the Patient of patient record p is to carry: the first
\* present of MRN, reference id, health-exchange reference and generic id, then
\* the health-exchange reference if the patient has one
ExpectedIdentifierValues(p) ==
    LET mr == IF p.mrn # UndefinedSeq THEN <<p.mrn>>
              ELSE IF p.user_ref_id # UndefinedSeq THEN <<p.user_ref_id>>
              ELSE IF p.abha_ref # UndefinedSeq THEN <<p.abha_ref>>
              ELSE IF p.id # UndefinedSeq THEN <<p.id>>
              ELSE <<>>
    IN mr \o (IF p.abha_ref # UndefinedSeq THEN <<p.abha_ref>> ELSE <<>>)

IdentifierValues(patientRes) == [k \in 1..Len(patientRes.identifier) |-> patientRes.identifier[k].value]

\* C15 as stated: the Patient built by a click carries first the
\* medical-record identifier, whose value is the first present of MRN field,
\* reference id, health-exchange reference and generic id, and then, only if
\* the patient has a health-exchange reference, the health-exchange
\* identifier: at most two entries, in that order.
C15_Original ==
    [][/\ (ClickStep /\ variant = "doc" /\ ~MissingRequiredDoc)
          => \A b \in builds' \ builds :
                IdentifierValues(b.patientRes) = ExpectedIdentifierValues(selectedPatient)
       /\ (ClickStep /\ variant = "invoice" /\ ~MissingRequiredInvoice)
          => IdentifierValues(generatedBundle'.entry[2].resource) = ExpectedIdentifierValues(selectedPatient)]_vars

\* C16: a failed file read ends its build with an error (the rejection of
\* onBuildBundle's promise): the build is gone, nothing is submitted by that
\* step and no other build is touched; and no bundle built from selected files
\* ever carries the placeholder payload.
C16_ReadFailureEndsBuild ==
    /\ [](\A b \in Posting :
            Len(b.files) >= 1 =>
               \A k \in 1..Len(b.bundle.entry) :
                  b.bundle.entry[k].resource.resourceType = "Binary"
                     => b.bundle.entry[k].resource.data # PLACEHOLDER_PDF_B64)
    /\ [][ReadFailed =>
            /\ \E b \in builds : b.pc = "reading" /\ Len(b.files) >= 1 /\ builds' = builds \ {b}
            /\ posts' = posts
            /\ rejections' = rejections + 1]_vars

\* C16 witness: a build with a selected file ended by a read failure, nothing submitted
C16_Witness == rejections = 1 /\ posts = 0 /\ builds = {} /\ Len(files) >= 1

\* C17: in every reachable state, a build whose Composition and Bundle exist
\* or whose bundle is submitted has no attachment read pending: every entry of
\* docsToProcess has been turned into its Binary and DocumentReference, and the
\* section lists them all; a build that still awaits a read has no bundle.
C17_SealedAfterAllReads ==
    \A b \in builds :
        /\ (b.pc = "posting" \/ b.bundle # NoBundle) =>
              /\ b.i = Len(b.docsToProcess) + 1
              /\ Len(b.binaries) = Len(b.docsToProcess)
              /\ Len(b.docRefs) = Len(b.docsToProcess)
              /\ Len(b.bundle.entry[1].resource.section[1].entry) = Len(b.docsToProcess)
        /\ b.i <= Len(b.docsToProcess) => (b.pc = "reading" /\ b.bundle = NoBundle)

\* C17 witness: one build has its two files read and its bundle submitted while
\* another still awaits a read
C17_Witness ==
    /\ \E b \in Posting : Len(b.files) = 2 /\ Len(b.binaries) = 2
    /\ \E b \in builds : b.pc = "reading"

\* C18: the failure of a submission is shown to the user in one alert and ends
\* that build with no further request; every request is sent by a build that
\* just built its bundle (one request per build); and the answer to a
\* submission, success or failure, changes no bundle: the other builds stay as
\* they are and the answered build only ends.
C18_SubmissionTerminal ==
    [][/\ PostRejected =>
            /\ lastAlert' = "Error submitting FHIR Bundle. See console."
            /\ alertCount' = alertCount + 1
            /\ posts' = posts
            /\ \E b \in builds : b.pc = "posting" /\ builds' = builds \ {b}
       /\ PostResolved =>
            /\ lastAlert' = "FHIR Bundle Submitted Successfully"
            /\ posts' = posts
            /\ \E b \in builds : b.pc = "posting" /\ builds' = builds \ {b}
       /\ posts' # posts =>
            /\ posts' = posts + 1
            /\ \E b \in builds' \ builds :
                 /\ b.pc = "posting"
                 /\ \A c \in builds : c.compId = b.compId => c.pc = "reading"
                 /\ \A c \in builds' : c.compId = b.compId => c = b]_vars

\* C18 witness: the one submission sent failed, the user was told, and nothing is in flight
C18_Witness ==
    /\ lastAlert = "Error submitting FHIR Bundle. See console."
    /\ posts = 1 /\ builds = {}

\* a click built a bundle: the doc variant's build reached its submission, the
\* invoice variant displays a bundle made by this click
ClickBuiltBundle ==
    IF variant = "invoice"
      THEN generatedBundle'.resourceType = "Bundle" /\ generatedBundle' # generatedBundle
      ELSE \E b \in builds' \ builds : b.pc = "posting" /\ b.bundle.resourceType = "Bundle"

HasAbhaAddress(p) == p.abha_ref # UndefinedSeq \/ (p.nested_abha.isArray /\ p.nested_abha.items # <<>>)

AshaScenario ==
    /\ variant = "doc"
    /\ selectedPatient # NoPatient
    /\ selectedPatient.name = "Asha" /\ selectedPatient.gender = "Female"
    /\ selectedPatient.dob = <<"0", "1", "-", "0", "2", "-", "1", "9", "9", "0">>
    /\ selectedPatient.mobile = "9999999999"
    /\ practitioner.name = "Dr. X" /\ practitioner.license = "LIC-1"
    /\ status = "final"
    /\ \E i \in 1..Len(title) : title[i] # " "
    /\ files = <<>>
    /\ encounterRefText = "" /\ custodianName = "" /\ attesterOrgName = ""

\* C20: a click in the end-to-end scenario builds and submits a bundle of
\* exactly five entries, Composition, Patient, Practitioner, DocumentReference
\* and Binary, whose Patient has birthDate "1990-02-01" and gender "female".
C20_EndToEnd ==
    [][(ClickStep /\ AshaScenario) =>
         \E b \in builds' \ builds :
            /\ b.pc = "posting"
            /\ TypesOf(b.bundle) = <<"Composition", "Patient", "Practitioner", "DocumentReference", "Binary">>
            /\ b.bundle.entry[2].resource.birthDate = <<"1", "9", "9", "0", "-", "0", "2", "-", "0", "1">>
            /\ b.bundle.entry[2].resource.gender = "female"]_vars

\* C20 witness: the bundle of the scenario is built and submitted
C20_Witness ==
    /\ AshaScenario
    /\ \E b \in Posting :
         /\ Len(b.bundle.entry) = 5
         /\ b.bundle.entry[2].resource.name = <<[text |-> "Asha"]>>
         /\ b.bundle.entry[2].resource.gender = "female"
         /\ b.bundle.entry[3].resource.name = <<[text |-> "Dr. X"]>>

\* C21: a submitted bundle has an Encounter entry exactly when encounter free
\* text was entered for its build, and the Encounter's period start and end
\* are the same timestamp, also when the clock advances between two reads.
C21_Original ==
    \A b \in Posting :
        /\ (b.encounterReference # NoRef) <=> (Len(OfType(b.bundle, "Encounter")) = 1)
        /\ Len(OfType(b.bundle, "Encounter")) <= 1
        /\ \A e \in Range(OfType(b.bundle, "Encounter")) :
              e.resource.period.start = e.resource.period.end

\* the Organization entries of a bundle other than its custodian
AttesterOrgEntries(bundle) ==
    SelectSeq(OfType(bundle, "Organization"), LAMBDA e : e.fullUrl # bundle.entry[1].resource.custodian)

\* the attester the Composition of bundle must carry for the party type, mode
\* and attester organization name a build worked with
AttesterAsChosen(bundle, partyType, mode, orgName) ==
    LET comp == bundle.entry[1].resource
        pract == bundle.entry[3]
        orgs == AttesterOrgEntries(bundle)
    IN /\ pract.resource.resourceType = "Practitioner"
       /\ Len(comp.attester) = 1
       /\ IF partyType = "Practitioner"
            THEN comp.attester[1] = [mode |-> mode, party |-> pract.fullUrl]
          ELSE IF orgName # ""
            THEN /\ Len(orgs) = 1
                 /\ orgs[1].resource.name = orgName
                 /\ comp.attester[1] = [mode |-> mode, party |-> orgs[1].fullUrl]
          ELSE /\ orgs = <<>>
               /\ comp.attester[1] = [mode |-> "official", party |-> pract.fullUrl]

\* C22: the Composition of every built bundle has exactly one attester entry.
\* In the doc variant it is the chosen party with the chosen mode (party type
\* Practitioner: the bundle's Practitioner; party type Organization with a
\* name: the attester Organization, an entry of the bundle); with party type
\* Organization and no name it is mode "official" at the Practitioner and the
\* bundle has no attester Organization entry. A build works with the party
\* type, mode and name the form held at its click. The invoice variant's
\* bundle always carries the default, mode "official" at its Practitioner.
C22_SingleAttester ==
    /\ [](/\ \A b \in Posting :
               AttesterAsChosen(b.bundle, b.attesterPartyType, b.attesterMode,
                                IF b.attesterOrgRes = NoRes THEN "" ELSE b.attesterOrgRes.name)
          /\ generatedBundle.resourceType = "Bundle"
               => generatedBundle.entry[1].resource.attester
                    = <<[mode |-> "official", party |-> generatedBundle.entry[3].fullUrl]>>)
    /\ [][ClickStep =>
            \A b \in builds' \ builds :
               /\ b.attesterPartyType = attesterPartyType
               /\ b.attesterMode = attesterMode
               /\ b.attesterOrgRes = NoRes <=> (attesterPartyType # "Organization" \/ attesterOrgName = "")
               /\ b.attesterOrgRes # NoRes => b.attesterOrgRes.name = attesterOrgName]_vars

\* C22 witness: a submitted bundle whose single attester is the named attester
\* Organization with mode professional
C22_Witness ==
    \E b \in Posting :
        /\ b.attesterPartyType = "Organization" /\ b.attesterMode = "professional"
        /\ Len(AttesterOrgEntries(b.bundle)) = 1
        /\ b.bundle.entry[1].resource.attester
             = <<[mode |-> "professional", party |-> AttesterOrgEntries(b.bundle)[1].fullUrl]>>

\* C23: doc variant. The static patient document is requested only by the
\* handling of a remote answer that is a failure, a non-OK status, an empty
\* list or no list, and not before the remote answer is handled. A remote
\* answer that is a non-empty list becomes the patient list and ends loading
\* with no request for the static document; once loading has ended the list
\* stays and nothing is requested. When loading ends with a non-empty list its
\* first patient is the selected patient.
C23_PatientSourcePriority ==
    /\ [](variant = "doc" /\ loadPc = "api" => staticAnswer = NoAnswer /\ patients = <<>>)
    /\ [][variant = "doc" /\ (loadPc' = "static" \/ staticAnswer' # NoAnswer) /\ loadPc # "static"
            => loadPc = "api" /\ (apiAnswer \in FailedAnswers \/ apiAnswer.data \in {NotArray, ArrayOf(<<>>)})]_vars
    /\ [][variant = "doc" /\ loadPc = "api" /\ loadPc' # "api"
            /\ apiAnswer.kind = "json" /\ apiAnswer.data.isArray /\ apiAnswer.data.items # <<>>
            => patients' = apiAnswer.data.items /\ loadPc' = "done" /\ staticAnswer' = NoAnswer]_vars
    /\ [][variant = "doc" /\ loadPc = "done"
            => loadPc' = "done" /\ patients' = patients /\ staticAnswer' = NoAnswer]_vars
    /\ [][variant = "doc" /\ loadPc # "done" /\ loadPc' = "done" /\ patients' # <<>>
            => selectedPatientIdx' = 0 /\ selectedPatient' = patients'[1]]_vars

\* C23 witness: loading has ended with the two-patient list, the first patient
\* is selected, and the user has not acted yet
C23_Witness ==
    /\ variant = "doc" /\ loadPc = "done" /\ acts = 0
    /\ patients = <<pAsha, pFull>> /\ selectedPatient = pAsha
    /\ staticAnswer = NoAnswer

\* the Invoice record of an invoice bundle
InvoiceOf(bundle) == OfType(bundle, "Invoice")[1].resource

\* C24: invoice variant, no total typed by the user: whatever line items were
\* added, updated and removed before, the Invoice a click on Generate builds
\* has totalNet and totalGross equal to the sum of the current line-item amounts.
C24_Original ==
    [][(ClickStep /\ variant = "invoice" /\ generatedBundle' # generatedBundle) =>
         /\ InvoiceOf(generatedBundle').totalNet = SumAmounts(lineItems)
         /\ InvoiceOf(generatedBundle').totalGross = SumAmounts(lineItems)]_vars

\* list without its element at index i, counted from 0
WithoutIndex(list, i) == SubSeq(list, 1, i) \o SubSeq(list, i + 2, Len(list))

\* C25: the preview names and the selected files always have the same length
\* and the i-th preview name is the name of the i-th file. The filter a removal
\* applies deletes exactly the element at its index from both lists, keeping
\* the order of the rest, and for an index out of range changes neither; a
\* click on a Remove button removes one and the same index from both lists.
C25_PreviewAligned ==
    /\ [](/\ Len(fileNamesPreview) = Len(files)
          /\ \A k \in 1..Len(files) : fileNamesPreview[k] = files[k].name
          /\ \A i \in (0 - 1)..(MaxFiles + 1) :
               IF i >= 0 /\ i < Len(files)
                 THEN /\ FilterOutIndex(files, i) = WithoutIndex(files, i)
                      /\ FilterOutIndex(fileNamesPreview, i) = WithoutIndex(fileNamesPreview, i)
                 ELSE /\ FilterOutIndex(files, i) = files
                      /\ FilterOutIndex(fileNamesPreview, i) = fileNamesPreview)
    /\ [][removeFileAtIndex
            => \E i \in 0..(Len(files) - 1) :
                  /\ files' = WithoutIndex(files, i)
                  /\ fileNamesPreview' = WithoutIndex(fileNamesPreview, i)]_vars

\* C25 witness: of the two picked files the first was removed; the second is
\* left in both lists
C25_Witness ==
    /\ acts = 2
    /\ files = <<fileReport>> /\ fileNamesPreview = <<"report.pdf">>

\* the addresses of the abha:// telecom lines of a Patient record
AbhaTelecomOf(patientRes) ==
    {t.value : t \in {x \in Range(patientRes.telecom) : x.system = "url"}}

\* the abha:// lines the normalized addresses of patient p allow
AbhaLinesOf(p) ==
    {<<"abha://">> \o normalizeAbhaAddresses(p)[k].value : k \in 1..Len(normalizeAbhaAddresses(p))}

\* C26: doc variant. Whenever the effect that follows a patient load or a
\* patient change has run, the options are the selected patient's normalized
\* addresses and the chosen address is empty exactly when there are none (or
\* no patient is selected) and else the value of one of the options; the
\* effect itself chooses the first option. A build started by a click emits
\* at most one abha:// line, and only one of the selected patient's addresses.
C26_AbhaOfCurrentPatient ==
    /\ [](variant = "doc" /\ ~abhaEffectPending =>
            /\ abhaOptions = normalizeAbhaAddresses(selectedPatient)
            /\ (selectedAbha = <<>>) <=> (abhaOptions = <<>>)
            /\ selectedAbha # <<>> => \E k \in 1..Len(abhaOptions) : selectedAbha = abhaOptions[k].value)
    /\ [][variant = "doc" /\ abhaEffectPending /\ ~abhaEffectPending'
            => selectedAbha' = FirstAbha(normalizeAbhaAddresses(selectedPatient'))]_vars
    /\ [][ClickStep /\ variant = "doc"
            => \A b \in builds' \ builds :
                  /\ AbhaTelecomOf(b.patientRes) \subseteq AbhaLinesOf(selectedPatient)
                  /\ Cardinality(AbhaTelecomOf(b.patientRes)) = IF selectedAbha = <<>> THEN 0 ELSE 1]_vars

\* C26 witness: the user changed from the first patient, who has no address,
\* to the second, and a build carries the second patient's primary address
C26_Witness ==
    /\ variant = "doc" /\ selectedPatientIdx = 1 /\ ~abhaEffectPending
    /\ selectedAbha = <<"b", "@", "x">>
    /\ \E b \in builds : AbhaTelecomOf(b.patientRes) = {<<"abha://", "b", "@", "x">>}

\* the identifiers an invocation drew for its own records
OwnIds(b) ==
    {b.compId, b.patientId} \cup Range(b.binaryIds) \cup Range(b.docRefIds)
      \cup ({b.encounterId, b.custodianOrgId, b.attesterOrgId} \ {UndefinedSeq})

\* the bundle invocation b submitted is made of b's own records, built from
\* the form and the files b saw, and is sound on its own
MadeByInvocation(b) ==
    /\ {e.resource.id : e \in Range(b.bundle.entry)} = OwnIds(b) \cup {b.practitionerRes.id}
    /\ b.bundle.entry[1].resource.title = b.title
    /\ b.bundle.entry[1].resource.status = b.status
    /\ b.bundle.entry[2].resource = b.patientRes
    /\ b.bundle.entry[3].resource = b.practitionerRes
    /\ [k \in 1..Len(b.docRefIds) |-> OfType(b.bundle, "DocumentReference")[k].resource.id] = b.docRefIds
    /\ [k \in 1..Len(b.binaryIds) |-> OfType(b.bundle, "Binary")[k].resource.id] = b.binaryIds
    /\ Len(b.files) >= 1 => CarriesFiles(b.bundle, b.files, TRUE)
    /\ Len(OfType(b.bundle, "Binary")) = Max(1, Len(b.files))
    /\ Len(OfType(b.bundle, "DocumentReference")) = Max(1, Len(b.files))
    /\ \A e \in Range(b.bundle.entry) : RefsOf(e.resource) \subseteq FullUrls(b.bundle)

\* C27: builds may overlap, also after form edits and file changes. An
\* invocation works with the form state and the file list of its click; no
\* later step (an edit, a file change, another invocation's click or read)
\* changes what it saw or what it has built so far; no two invocations share
\* an identifier of their own; and every submitted bundle is made only of its
\* invocation's records, resolves all its references and has max(1, N)
\* attachments for the N files its invocation saw.
C27_OverlappingBuildsIsolated ==
    /\ [](/\ \A b \in Posting : MadeByInvocation(b)
          /\ \A b1, b2 \in builds : b1 # b2 => OwnIds(b1) \cap OwnIds(b2) = {})
    /\ [][ClickStep =>
            \A b \in builds' \ builds :
               /\ b.files = files /\ b.title = title /\ b.status = status
               /\ b.attesterMode = attesterMode /\ b.attesterPartyType = attesterPartyType
               /\ (b.encounterRes # NoRes) <=> (encounterRefText # "")
               /\ IF custodianName = "" THEN b.custodianRes = NoRes ELSE b.custodianRes.name = custodianName
               /\ b.patientRes = buildPatientResource(selectedPatient, b.patientId, selectedAbha)
               /\ OwnIds(b) \cap UNION {OwnIds(o) : o \in builds} = {}]_vars
    /\ [][\A b \in builds : \A b2 \in builds' :
            b2.compId = b.compId =>
               /\ b2.files = b.files /\ b2.title = b.title /\ b2.status = b.status
               /\ b2.patientRes = b.patientRes /\ b2.practitionerRes = b.practitionerRes
               /\ b2.encounterRes = b.encounterRes /\ b2.custodianRes = b.custodianRes
               /\ b2.attesterOrgRes = b.attesterOrgRes
               /\ OwnIds(b2) = OwnIds(b)
               /\ Len(b2.binaries) >= Len(b.binaries)
               /\ SubSeq(b2.binaries, 1, Len(b.binaries)) = b.binaries
               /\ SubSeq(b2.docRefs, 1, Len(b.docRefs)) = b.docRefs
               /\ b.pc = "posting" => b2 = b]_vars

\* C27 witness: the first invocation still awaits a file read while a second
\* one, triggered after the file list was changed, has read its files and
\* submitted its bundle
C27_Witness ==
    \E b1, b2 \in builds :
        /\ b1.compId = uuidv4(2) /\ b1.pc = "reading"
        /\ b2.pc = "posting"
        /\ b2.files # b1.files /\ Len(b2.files) >= 1

====
